---- MODULE Spec2Model ----
(***************************************************************************)
(* Trackman-converter: report retrieval, metadata enrichment,             *)
(* de-duplication of discovered candidates and workbook synthesis.        *)
(*                                                                         *)
(* JSON values are tagged records: [t |-> "absent"] (key missing),         *)
(* [t |-> "null"], [t |-> "num", v |-> n], [t |-> "str", s |-> text],      *)
(* [t |-> "list", items |-> <<...>>], [t |-> "dict", f |-> function].      *)
(* Raw measurement numbers are integers in thousandths of the SI unit,     *)
(* converted cell numbers are integers in hundredths of the display unit.  *)
(***************************************************************************)
EXTENDS Integers, Sequences, FiniteSets, TLC

VARIABLES
    \* build_workbook_per_club
    variant, data, wbpc, stroke_groups, gi, wb, all_rows, exc,
    \* fetch_report_metadata_batch
    report_ids, max_workers, bpc, futs, results,
    \* download_report and the orchestration around it
    dlpc, selected, resp, rawFile, xlsxFiles, json_path, dl_exc, shown,
    calls, last200,
    \* de-duplication in handle_cloud
    raw_reports, ddpc, di, seen, unique_reports,
    \* calls of convert_measurement_to_row and _fmt_time
    cvpc, cv_m, cv_row, cv_iso, cv_text,
    \* append_best_swings
    bspc, bs_df, bs_ws, index_list, first_q_excel_row,
    \* the readers of the browser's stores: get_all_report_ids_from_chrome,
    \* get_latest_report_id_from_chrome, extract_token_from_chrome
    hs_fn, hspc, hs_limit, hs_store, tmp_copy, hs_conn, hs_rows, hs_i,
    hs_results, hs_pending, hs_unlink,
    \* TrackmanApp.handle_cloud and its TokenAndReportDialog
    clpc, token, dialog, messages, metadata_list, enriched, sorted_reports

wbVars == <<variant, data, wbpc, stroke_groups, gi, wb, all_rows, exc>>
batchVars == <<report_ids, max_workers, bpc, futs, results>>
dlVars ==
    <<dlpc, selected, resp, rawFile, xlsxFiles, json_path, dl_exc, shown,
      calls, last200>>
ddVars == <<raw_reports, ddpc, di, seen, unique_reports>>
cvVars == <<cvpc, cv_m, cv_row, cv_iso, cv_text>>
\* The variables of the parts added after the first four.
bsVars == <<bspc, bs_df, bs_ws, index_list, first_q_excel_row>>
hsVars ==
    <<hs_fn, hspc, hs_limit, hs_store, tmp_copy, hs_conn, hs_rows, hs_i,
      hs_results, hs_pending, hs_unlink>>
\* TrackmanApp.handle_cloud (trackman_gui.py)
clVars ==
    <<clpc, token, dialog, messages, metadata_list, enriched, sorted_reports>>
extVars == <<cvVars, bsVars, hsVars, clVars>>
vars == <<wbVars, batchVars, dlVars, ddVars, extVars>>

(***************************************************************************)
(* Bounds of the model.                                                    *)
(***************************************************************************)
MaxGroups == 2
MaxStrokes == 3
MaxIds == 3
MaxWorkers == 2
MaxCalls == 3
MaxRaw == 3
MaxBsRows == 3
MaxHistory == 3

(***************************************************************************)
(* JSON values and the Python operations the code applies to them.         *)
(***************************************************************************)
JAbsent == [t |-> "absent"]
JNull == [t |-> "null"]
JNum(n) == [t |-> "num", v |-> n]
JStr(s) == [t |-> "str", s |-> s]
JBool(b) == [t |-> "bool", b |-> b]
JList(xs) == [t |-> "list", items |-> xs]
JDict(f) == [t |-> "dict", f |-> f]
EmptyDict == JDict([k \in {} |-> JNull])

IsDict(x) == x.t = "dict"

\* d.get(k): the value, None when the key is missing.
Get(d, k) == IF k \in DOMAIN d.f /\ d.f[k].t # "absent" THEN d.f[k] ELSE JNull

\* d.get(k, dflt)
GetD(d, k, dflt) == IF k \in DOMAIN d.f /\ d.f[k].t # "absent" THEN d.f[k] ELSE dflt

\* Python truthiness of a JSON value.
Truthy(x) ==
    CASE x.t = "null" -> FALSE
      [] x.t = "absent" -> FALSE
      [] x.t = "num" -> x.v # 0
      [] x.t = "bool" -> x.b
      [] x.t = "str" -> x.s # ""
      [] x.t = "list" -> Len(x.items) > 0
      [] x.t = "dict" -> \E k \in DOMAIN x.f : x.f[k].t # "absent"
      [] OTHER -> TRUE

\* x or []
OrEmptyList(x) == IF Truthy(x) THEN x ELSE JList(<<>>)

\* What "for e in x" iterates over; a number is not iterable (TypeError),
\* a string yields its characters, a dict its keys (both strings).
Iterable(x) == x.t \in {"list", "str", "dict"}

(***************************************************************************)
(* Unit conversion layer (converter.py).                                   *)
(***************************************************************************)
COLUMNS ==
    << "Time",
       "Club Speed (Mph)", "Ball Speed (Mph)", "Smash Factor",
       "Carry (Yds)", "Total (Yds)",
       "Impact Height (mm)", "Impact Offset (mm)",
       "Club Path (Deg)", "Face Angle (Deg)", "Face To Path (Deg)",
       "Launch Direction (Deg)", "Attack Angle (Deg)",
       "Dynamic Loft (Deg)", "Launch Angle (Deg)", "Spin Loft (Deg)",
       "Spin Rate (Rpm)", "Spin Axis (Deg)",
       "Curve (Ft)", "Carry Side (Ft)", "Total Side (Ft)",
       "Max Height (Ft)", "Landing Angle (Deg)",
       "Swing Direction (Deg)", "Swing Plane (Deg)", "Swing Radius",
       "DPlane Tilt", "Low Point (In)", "Landing Height", "Hang Time (Sec)",
       "Dynamic Lie (Deg)" >>

ColumnSet == {COLUMNS[i] : i \in 1..Len(COLUMNS)}

\* The source field of each numeric column and its factor times 100000.
SourceField ==
    [c \in ColumnSet \ {"Time"} |->
        CASE c = "Club Speed (Mph)" -> <<"ClubSpeed", 223694>>
          [] c = "Ball Speed (Mph)" -> <<"BallSpeed", 223694>>
          [] c = "Smash Factor" -> <<"SmashFactor", 100000>>
          [] c = "Carry (Yds)" -> <<"Carry", 109361>>
          [] c = "Total (Yds)" -> <<"Total", 109361>>
          [] c = "Impact Height (mm)" -> <<"ImpactHeight", 100000000>>
          [] c = "Impact Offset (mm)" -> <<"ImpactOffset", 100000000>>
          [] c = "Club Path (Deg)" -> <<"ClubPath", 100000>>
          [] c = "Face Angle (Deg)" -> <<"FaceAngle", 100000>>
          [] c = "Face To Path (Deg)" -> <<"FaceToPath", 100000>>
          [] c = "Launch Direction (Deg)" -> <<"LaunchDirection", 100000>>
          [] c = "Attack Angle (Deg)" -> <<"AttackAngle", 100000>>
          [] c = "Dynamic Loft (Deg)" -> <<"DynamicLoft", 100000>>
          [] c = "Launch Angle (Deg)" -> <<"LaunchAngle", 100000>>
          [] c = "Spin Loft (Deg)" -> <<"SpinLoft", 100000>>
          [] c = "Spin Rate (Rpm)" -> <<"SpinRate", 100000>>
          [] c = "Spin Axis (Deg)" -> <<"SpinAxis", 100000>>
          [] c = "Curve (Ft)" -> <<"Curve", 328084>>
          [] c = "Carry Side (Ft)" -> <<"CarrySide", 328084>>
          [] c = "Total Side (Ft)" -> <<"TotalSide", 328084>>
          [] c = "Max Height (Ft)" -> <<"MaxHeight", 328084>>
          [] c = "Landing Angle (Deg)" -> <<"LandingAngle", 100000>>
          [] c = "Swing Direction (Deg)" -> <<"SwingDirection", 100000>>
          [] c = "Swing Plane (Deg)" -> <<"SwingPlane", 100000>>
          [] c = "Swing Radius" -> <<"SwingRadius", 100000>>
          [] c = "DPlane Tilt" -> <<"DPlaneTilt", 100000>>
          [] c = "Low Point (In)" -> <<"LowPointDistance", 3937010>>
          [] c = "Landing Height" -> <<"LandingHeight", 100000>>
          [] c = "Hang Time (Sec)" -> <<"HangTime", 100000>>
          [] c = "Dynamic Lie (Deg)" -> <<"DynamicLie", 100000>>]

\* The ISO-8601 texts of the modelled inputs that datetime.fromisoformat
\* parses (after "Z" -> "+00:00"), with their strftime rendering.
IsoRendering ==
    [x \in {"2024-05-01T10:00:00Z", "2024-05-01T10:00:05+00:00",
            "2024-05-01T12:30:00+02:00", "2024-05-01",
            "2024-05-01 10:00:00"} |->
        CASE x = "2024-05-01T10:00:00Z" -> "2024-05-01 10:00:00"
          [] x = "2024-05-01T10:00:05+00:00" -> "2024-05-01 10:00:05"
          [] x = "2024-05-01T12:30:00+02:00" -> "2024-05-01 12:30:00"
          [] x = "2024-05-01" -> "2024-05-01 00:00:00"
          [] OTHER -> "2024-05-01 10:00:00"]

\* A variant of _fmt_time that answers a value it cannot parse with "".
fmt_time_blank_on_failure(iso) ==
    IF iso.t = "str" /\ iso.s \in DOMAIN IsoRendering
    THEN JStr(IsoRendering[iso.s])
    ELSE JStr("")

\* _fmt_time: empty or null -> "", parsable -> re-rendered, anything else
\* (the parse raised) -> the value itself.
fmt_time(iso) ==
    IF ~Truthy(iso) THEN JStr("")
    ELSE IF iso.t = "str" /\ iso.s \in DOMAIN IsoRendering
         THEN JStr(IsoRendering[iso.s])
         ELSE iso

\* round(float(v) * factor, 2) on integers: v in thousandths, the factor
\* times 100000, the result in hundredths, ties to even.  The product is
\* split so that no intermediate value leaves 32 bits.
ScaleRound(a, factorE5) ==
    LET fh == factorE5 \div 1000
        fl == factorE5 % 1000
        A == a * fh
        low == (A % 1000) * 1000 + a * fl
        q == A \div 1000 + low \div 1000000
        r == low % 1000000
    IN IF r > 500000 \/ (r = 500000 /\ q % 2 = 1) THEN q + 1 ELSE q

\* The texts of the modelled inputs that float() parses, in thousandths.
FloatText == [x \in {"12.5"} |-> 12500]

\* float(v) accepts numbers, booleans and numeric text.
FloatAccepts(v) ==
    v.t \in {"num", "bool"} \/ (v.t = "str" /\ v.s \in DOMAIN FloatText)

\* float(v), in thousandths.
FloatOf(v) ==
    CASE v.t = "num" -> v.v
      [] v.t = "bool" -> IF v.b THEN 1000 ELSE 0
      [] OTHER -> FloatText[v.s]

\* A variant of _conv that answers a value it cannot convert with 0.
conv_zero_default(v, factorE5) ==
    IF FloatAccepts(v)
    THEN JNum(IF FloatOf(v) < 0 THEN -ScaleRound(-FloatOf(v), factorE5)
              ELSE ScaleRound(FloatOf(v), factorE5))
    ELSE JNum(0)

\* _conv: None -> "", a value float() accepts -> round(float(v) * factor, 2),
\* anything float() rejects -> "".
conv(v, factorE5) ==
    IF FloatAccepts(v)
    THEN JNum(IF FloatOf(v) < 0 THEN -ScaleRound(-FloatOf(v), factorE5)
              ELSE ScaleRound(FloatOf(v), factorE5))
    ELSE JStr("")

\* convert_measurement_to_row: the row as a function of the column name.
convert_measurement_to_row(m) ==
    IF ~Truthy(m) THEN [c \in ColumnSet |-> JStr("")]
    ELSE [c \in ColumnSet |->
            IF c = "Time" THEN fmt_time(GetD(m, "Time", JStr("")))
            ELSE conv(Get(m, SourceField[c][1]), SourceField[c][2])]

\* The keys of the dict literal convert_measurement_to_row returns, in the
\* order the literal lists them.
LiteralKeys ==
    << "Time",
       "Club Speed (Mph)", "Ball Speed (Mph)", "Smash Factor",
       "Carry (Yds)", "Total (Yds)",
       "Impact Height (mm)", "Impact Offset (mm)",
       "Club Path (Deg)", "Face Angle (Deg)", "Face To Path (Deg)",
       "Launch Direction (Deg)", "Attack Angle (Deg)",
       "Dynamic Loft (Deg)", "Launch Angle (Deg)", "Spin Loft (Deg)",
       "Spin Rate (Rpm)", "Spin Axis (Deg)",
       "Curve (Ft)", "Carry Side (Ft)", "Total Side (Ft)",
       "Max Height (Ft)", "Landing Angle (Deg)",
       "Swing Direction (Deg)", "Swing Plane (Deg)", "Swing Radius",
       "DPlane Tilt", "Low Point (In)", "Landing Height", "Hang Time (Sec)",
       "Dynamic Lie (Deg)" >>

\* The keys of the returned dict in insertion order: the comprehension
\* over COLUMNS for an empty measurement, the literal otherwise.
row_keys(m) == IF ~Truthy(m) THEN COLUMNS ELSE LiteralKeys

(***************************************************************************)
(* Calls of the conversion layer on single inputs.                         *)
(***************************************************************************)
\* Values of a Time field.
TimeInputs ==
    {JStr(x) : x \in DOMAIN IsoRendering}
    \cup {JStr(""), JStr("01/05/2024 10:00"), JStr("yesterday"),
          JNull, JNum(0), JNum(5000), JList(<<JNum(1000)>>)}

\* Values of a numeric source field.
FieldInputs ==
    {JAbsent, JNull, JNum(0), JNum(50000), JNum(-1234), JStr("12.5"),
     JStr("n/a"), JStr(""), JBool(TRUE), JList(<<>>)}

\* Measurement records: one field with a factor, one without, and Time.
MeasurementInputs ==
    {EmptyDict}
    \cup {JDict([Time |-> t, BallSpeed |-> b, SmashFactor |-> f]) :
            t \in {JAbsent, JNull, JStr("2024-05-01T10:00:00Z"), JStr("yesterday")},
            b \in FieldInputs, f \in FieldInputs}

NoRow == [c \in {} |-> JNull]

CvInit ==
    \/ /\ cvpc = "convert_measurement_to_row"
       /\ cv_m \in MeasurementInputs
       /\ cv_iso = JNull
       /\ cv_row = NoRow /\ cv_text = JAbsent
    \/ /\ cvpc = "_fmt_time"
       /\ cv_iso \in TimeInputs
       /\ cv_m = EmptyDict
       /\ cv_row = NoRow /\ cv_text = JAbsent

\* row = convert_measurement_to_row(m)
ConvertRow ==
    /\ cvpc = "convert_measurement_to_row"
    /\ cv_row' = convert_measurement_to_row(cv_m)
    /\ cvpc' = "returned row"
    /\ UNCHANGED <<cv_m, cv_iso, cv_text>>
    /\ UNCHANGED <<wbVars, batchVars, dlVars, ddVars, bsVars, hsVars, clVars>>

\* text = _fmt_time(iso)
FormatTime ==
    /\ cvpc = "_fmt_time"
    /\ cv_text' = fmt_time(cv_iso)
    /\ cvpc' = "returned text"
    /\ UNCHANGED <<cv_m, cv_iso, cv_row>>
    /\ UNCHANGED <<wbVars, batchVars, dlVars, ddVars, bsVars, hsVars, clVars>>

\* C17: for every measurement record the returned row has exactly the 31
\* schema columns in COLUMNS order; a numeric column whose source field is
\* missing, null or not convertible is the empty value (never 0), and every
\* other numeric column holds a number.
C17_RowHasSchemaColumns ==
    cvpc = "returned row"
        => /\ row_keys(cv_m) = COLUMNS
           /\ Len(COLUMNS) = 31
           /\ Cardinality(ColumnSet) = 31
           /\ DOMAIN cv_row = ColumnSet
           /\ \A c \in ColumnSet \ {"Time"} :
                LET v == Get(cv_m, SourceField[c][1])
                IN IF v.t \in {"null", "list", "dict"}
                      \/ (v.t = "str" /\ v.s \in {"", "n/a"})
                   THEN cv_row[c] = JStr("")
                   ELSE cv_row[c].t = "num"

\* A record with a missing field, a null field and a field holding zero.
C17_Witness ==
    /\ cvpc = "returned row"
    /\ Get(cv_m, "Time") = JStr("2024-05-01T10:00:00Z")
    /\ cv_m.f["BallSpeed"] = JNull
    /\ cv_m.f["SmashFactor"] = JNum(0)
    /\ cv_row["Ball Speed (Mph)"] = JStr("")
    /\ cv_row["Club Speed (Mph)"] = JStr("")
    /\ cv_row["Smash Factor"] = JNum(0)
    /\ cv_row["Time"] = JStr("2024-05-01 10:00:00")

\* C18: _fmt_time returns (it never raises): "" for an empty or null
\* value, the "YYYY-MM-DD HH:MM:SS" rendering for a text that parses, and
\* the value itself for anything that does not parse.
C18_FmtTimeNeverRaises ==
    /\ cvpc \in {"convert_measurement_to_row", "_fmt_time", "returned row",
                 "returned text"}
    /\ cvpc = "returned text"
        => /\ cv_iso \in {JNull, JStr("")} => cv_text = JStr("")
           /\ cv_iso \in {JStr("2024-05-01T10:00:00Z"),
                           JStr("2024-05-01 10:00:00")}
                => cv_text = JStr("2024-05-01 10:00:00")
           /\ cv_iso = JStr("2024-05-01T10:00:05+00:00")
                => cv_text = JStr("2024-05-01 10:00:05")
           /\ cv_iso = JStr("2024-05-01T12:30:00+02:00")
                => cv_text = JStr("2024-05-01 12:30:00")
           /\ cv_iso = JStr("2024-05-01") => cv_text = JStr("2024-05-01 00:00:00")
           /\ cv_iso \in {JStr("01/05/2024 10:00"), JStr("yesterday"),
                           JNum(5000), JList(<<JNum(1000)>>)}
                => cv_text = cv_iso

\* A text that does not parse came back as it was.
C18_Witness ==
    /\ cvpc = "returned text"
    /\ cv_iso = JStr("01/05/2024 10:00")
    /\ cv_text = JStr("01/05/2024 10:00")

(***************************************************************************)
(* Workbook synthesis: build_workbook_per_club in converter.py,            *)
(* trackman_gui.py and trackman_gui_app.py.                                *)
(***************************************************************************)
Variants == {"converter", "gui", "gui_app"}

NaN == [t |-> "nan"]
NaT == [t |-> "nat"]
Timestamp(s) == [t |-> "ts", s |-> s]

\* Values pd.to_numeric converts: numbers, and the empty string (to NaN).
IsNumericCell(c) == c.t \in {"num", "nan"} \/ (c.t = "str" /\ c.s = "")

ToNumericCell(c) == IF c.t = "str" THEN NaN ELSE c

\* Texts of the form "%Y-%m-%d %H:%M:%S".
IsRenderedTime(c) ==
    c.t = "str" /\ \E x \in DOMAIN IsoRendering : IsoRendering[x] = c.s

\* The DataFrame column c of a list of rows.
Column(rows, c) == [j \in 1..Len(rows) |-> rows[j][c]]

\* converter.py: pd.to_numeric(df[col], errors="ignore") on every column:
\* a column is converted only when every value of it converts, otherwise
\* the column is returned as it was.
CoerceIgnore(rows) ==
    [i \in 1..Len(rows) |->
        [c \in ColumnSet |->
            IF \A j \in 1..Len(rows) : IsNumericCell(Column(rows, c)[j])
            THEN ToNumericCell(rows[i][c])
            ELSE rows[i][c]]]

\* trackman_gui.py: pd.to_datetime(..., errors='coerce') on Time and
\* pd.to_numeric(..., errors='coerce') on the other columns, value by value.
CoerceGui(rows) ==
    [i \in 1..Len(rows) |->
        [c \in ColumnSet |->
            IF c = "Time"
            THEN IF IsRenderedTime(rows[i][c]) THEN Timestamp(rows[i][c].s)
                 ELSE NaT
            ELSE IF IsNumericCell(rows[i][c]) THEN ToNumericCell(rows[i][c])
                 ELSE NaN]]

\* The frame each variant builds from the rows (trackman_gui_app.py
\* converts nothing).
Frame(v, rows) ==
    CASE v = "converter" -> CoerceIgnore(rows)
      [] v = "gui" -> CoerceGui(rows)
      [] OTHER -> rows

\* dataframe_to_rows(df, index=False, header=True) without the header row.
dataframe_to_rows(df) ==
    [i \in 1..Len(df) |-> [k \in 1..Len(COLUMNS) |-> df[i][COLUMNS[k]]]]

\* club[:31] on the modelled names: the names longer than 31 characters
\* with their first 31 characters.
Over31 ==
    [x \in {"Driver (TaylorMade Qi10 LS 9.0 deg)"} |->
        "Driver (TaylorMade Qi10 LS 9.0 "]

Slice31(name) == IF name \in DOMAIN Over31 THEN Over31[name] ELSE name

\* str(g.get("Club", "Unknown Club"))
ClubOf(g) ==
    LET c == GetD(g, "Club", JStr("Unknown Club"))
    IN IF c.t = "str" THEN c.s ELSE "None"

\* wb.create_sheet(title): an empty sheet.
NewSheet(title) == [title |-> title, header |-> <<>>, data |-> <<>>, a1 |-> ""]

\* The sheet after ws.append of the header and of every row of the frame.
FilledSheet(title, df) ==
    [title |-> title, header |-> COLUMNS, data |-> dataframe_to_rows(df),
     a1 |-> COLUMNS[1]]

PlaceholderSheet ==
    [title |-> "Trackman Report", header |-> <<>>, data |-> <<>>,
     a1 |-> "No StrokeGroups found in the JSON."]

\* g.get("Strokes", []) or []   (trackman_gui_app.py has no "or []")
StrokesOf(v, g) ==
    IF v = "gui_app" THEN GetD(g, "Strokes", JList(<<>>))
    ELSE OrEmptyList(GetD(g, "Strokes", JList(<<>>)))

\* Whether the stroke's measurement becomes a row: isinstance(m, dict) in
\* converter.py and trackman_gui.py, truthiness in trackman_gui_app.py.
TakesMeasurement(v, s) ==
    IF v = "gui_app" THEN Truthy(Get(s, "Measurement"))
    ELSE IsDict(Get(s, "Measurement"))

\* The stroke loop raises on a stroke that is no record (s.get), and in
\* trackman_gui_app.py on a truthy measurement that is no record (m.get).
StrokeRaises(v, s) ==
    \/ ~IsDict(s)
    \/ v = "gui_app" /\ Truthy(Get(s, "Measurement"))
                      /\ ~IsDict(Get(s, "Measurement"))

RECURSIVE RowsOf(_, _)
RowsOf(v, strokes) ==
    IF strokes = <<>> THEN <<>>
    ELSE (IF TakesMeasurement(v, Head(strokes))
          THEN <<convert_measurement_to_row(Get(Head(strokes), "Measurement"))>>
          ELSE <<>>) \o RowsOf(v, Tail(strokes))

\* ---- the payloads the model draws ----
MFull ==
    JDict([Time |-> JStr("2024-05-01T10:00:00Z"), BallSpeed |-> JNum(50000)])
MNoTime == JDict([Time |-> JAbsent, BallSpeed |-> JNum(50000)])

Measurements == {MFull, MNoTime}

\* A stroke: a record with a measurement, with none (key missing, which
\* s.get turns into None, or an empty record), or an entry that is no
\* record at all.
StrokeInputs ==
    {JDict([Measurement |-> m]) : m \in Measurements \cup {JAbsent, EmptyDict}}
    \cup {JStr("stroke")}

ClubInputs == {JStr("Driver"), JStr("7 Iron")}

SeqsOfLen(S, n) == [1..n -> S]

\* The groups with exactly n strokes (a null Strokes counts 0), and an
\* entry that is no record.
GroupInputs(n) ==
    {JDict([Club |-> c, Strokes |-> JList(st)]) :
        c \in ClubInputs, st \in SeqsOfLen(StrokeInputs, n)}
    \cup (IF n = 0
          THEN {JDict([Club |-> c, Strokes |-> JNull]) : c \in ClubInputs}
               \cup {JStr("group")}
          ELSE {})

\* The lists of exactly g groups with at most t strokes in all.
RECURSIVE GroupLists(_, _)
GroupLists(g, t) ==
    IF g = 0 THEN {<<>>}
    ELSE UNION {{<<grp>> \o rest : grp \in GroupInputs(n),
                                   rest \in GroupLists(g - 1, t - n)} :
                n \in 0..t}

Payloads ==
    {JList(<<>>)}
    \cup {JDict([StrokeGroups |-> x]) : x \in {JAbsent, JNull, JNum(5)}}
    \cup {JDict([StrokeGroups |-> JList(gs)]) :
            gs \in UNION {GroupLists(g, MaxStrokes) : g \in 0..MaxGroups}}

\* ---- the function, statement by statement ----
WbIdle ==
    /\ variant = "converter" /\ data = JNull /\ wbpc = "off"
    /\ stroke_groups = JNull /\ gi = 0 /\ wb = <<>> /\ all_rows = <<>>
    /\ exc = "none"

WbInit ==
    /\ variant \in Variants
    /\ data \in Payloads
    /\ wbpc = "start"
    /\ stroke_groups = JNull /\ gi = 0 /\ wb = <<>> /\ all_rows = <<>>
    /\ exc = "none"

Raise(e) == wbpc' = "raised" /\ exc' = e

\* wb = Workbook(); wb.remove(wb.active);
\* stroke_groups = data.get("StrokeGroups", []) or []; all_rows = []
BuildStart ==
    /\ wbpc = "start"
    /\ wb' = <<>>
    /\ all_rows' = <<>>
    /\ IF ~IsDict(data)
       THEN Raise("AttributeError") /\ UNCHANGED <<stroke_groups, gi>>
       ELSE LET sg == OrEmptyList(GetD(data, "StrokeGroups", JList(<<>>)))
            IN IF sg.t # "list"
               THEN Raise("TypeError") /\ UNCHANGED <<stroke_groups, gi>>
               ELSE /\ stroke_groups' = sg
                    /\ gi' = 1
                    /\ wbpc' = "loop"
                    /\ exc' = exc
    /\ UNCHANGED <<variant, data>>
    /\ UNCHANGED <<batchVars, dlVars, ddVars, extVars>>

\* One pass of "for g in stroke_groups".
ProcessGroup ==
    /\ wbpc = "loop"
    /\ gi <= Len(stroke_groups.items)
    /\ LET g == stroke_groups.items[gi]
       IN IF ~IsDict(g)
          THEN Raise("AttributeError") /\ UNCHANGED <<gi, wb, all_rows>>
          ELSE LET title == Slice31(ClubOf(g))
                   strokes == StrokesOf(variant, g)
               IN IF strokes.t # "list"
                  THEN /\ Raise("TypeError")
                       /\ wb' = Append(wb, NewSheet(title))
                       /\ UNCHANGED <<gi, all_rows>>
                  ELSE IF \E k \in 1..Len(strokes.items) :
                              StrokeRaises(variant, strokes.items[k])
                  THEN /\ Raise("AttributeError")
                       /\ wb' = Append(wb, NewSheet(title))
                       /\ UNCHANGED <<gi, all_rows>>
                  ELSE LET rows == RowsOf(variant, strokes.items)
                       IN /\ wb' = Append(wb,
                                IF rows = <<>> THEN NewSheet(title)
                                ELSE FilledSheet(title, Frame(variant, rows)))
                          /\ all_rows' = IF variant = "gui_app" THEN all_rows
                                         ELSE all_rows \o rows
                          /\ gi' = gi + 1
                          /\ UNCHANGED <<wbpc, exc>>
    /\ UNCHANGED <<variant, data, stroke_groups>>
    /\ UNCHANGED <<batchVars, dlVars, ddVars, extVars>>

\* trackman_gui_app.py collects the rows of "All Data" after the loop.
RECURSIVE AllRowsOf(_, _)
AllRowsOf(v, groups) ==
    IF groups = <<>> THEN <<>>
    ELSE RowsOf(v, StrokesOf(v, Head(groups)).items) \o AllRowsOf(v, Tail(groups))

\* After the loop: the "All Data" sheet when any row exists, otherwise the
\* placeholder sheet (trackman_gui_app.py has no placeholder); return wb.
FinishWorkbook ==
    /\ wbpc = "loop"
    /\ gi > Len(stroke_groups.items)
    /\ LET rows == IF variant = "gui_app"
                   THEN AllRowsOf(variant, stroke_groups.items)
                   ELSE all_rows
       IN /\ all_rows' = rows
          /\ wb' = IF rows # <<>>
                   THEN Append(wb, FilledSheet("All Data", Frame(variant, rows)))
                   ELSE IF variant = "gui_app" THEN wb
                   ELSE Append(wb, PlaceholderSheet)
    /\ wbpc' = "returned"
    /\ UNCHANGED <<variant, data, stroke_groups, gi, exc>>
    /\ UNCHANGED <<batchVars, dlVars, ddVars, extVars>>

(***************************************************************************)
(* Properties of workbook synthesis.                                       *)
(***************************************************************************)
\* A stroke carries a usable measurement: a non-empty measurement record.
Usable(s) ==
    IsDict(s) /\ IsDict(Get(s, "Measurement")) /\ Truthy(Get(s, "Measurement"))

GroupsIn(d) ==
    IF IsDict(d) /\ Get(d, "StrokeGroups").t = "list"
    THEN Get(d, "StrokeGroups").items ELSE <<>>

StrokesIn(g) ==
    IF IsDict(g) /\ Get(g, "Strokes").t = "list"
    THEN Get(g, "Strokes").items ELSE <<>>

UsableCount(g) ==
    Cardinality({k \in 1..Len(StrokesIn(g)) : Usable(StrokesIn(g)[k])})

AnyUsable(d) == \E i \in 1..Len(GroupsIn(d)) : UsableCount(GroupsIn(d)[i]) > 0

\* The titles of the groups that have a usable measurement, in group order.
RECURSIVE UsableTitles(_)
UsableTitles(groups) ==
    IF groups = <<>> THEN <<>>
    ELSE (IF UsableCount(Head(groups)) > 0
          THEN <<Slice31(ClubOf(Head(groups)))>> ELSE <<>>)
         \o UsableTitles(Tail(groups))

Titles(sheets) == [i \in 1..Len(sheets) |-> sheets[i].title]

\* The sheets before the last one (the last is the aggregate or placeholder).
GroupSheets(sheets) == SubSeq(sheets, 1, Len(sheets) - 1)

RECURSIVE ConcatData(_)
ConcatData(sheets) ==
    IF sheets = <<>> THEN <<>> ELSE Head(sheets).data \o ConcatData(Tail(sheets))

\* C1: in converter.py and trackman_gui.py the returned workbook has a
\* group sheet exactly for the groups with at least one usable measurement
\* (a group with none, or with no strokes, has no sheet at all).
C1_SheetsOnlyForGroupsWithMeasurements ==
    (wbpc = "returned" /\ variant \in {"converter", "gui"})
        => Titles(GroupSheets(wb)) = UsableTitles(GroupsIn(data))

\* C4: a report in which no stroke carries a usable measurement gives
\* exactly one sheet, the placeholder (converter.py, trackman_gui.py).
C4_PlaceholderOnlyWhenNoMeasurement ==
    (wbpc = "returned" /\ variant \in {"converter", "gui"} /\ ~AnyUsable(data))
        => wb = <<PlaceholderSheet>>

\* C5: every returned workbook, of every variant, has at least one sheet.
C5_WorkbookNeverEmpty == wbpc = "returned" => Len(wb) >= 1

\* The top-level structure is missing or malformed: no StrokeGroups key,
\* StrokeGroups null or no list, a group or a stroke that is no record.
Malformed(d) ==
    /\ IsDict(d)
    /\ \/ GetD(d, "StrokeGroups", JAbsent).t # "list"
       \/ \E i \in 1..Len(GroupsIn(d)) :
            \/ ~IsDict(GroupsIn(d)[i])
            \/ \E k \in 1..Len(StrokesIn(GroupsIn(d)[i])) :
                    ~IsDict(StrokesIn(GroupsIn(d)[i])[k])

\* C6: on a payload with missing or malformed structure converter.py's
\* build_workbook_per_club raises nothing and returns exactly the
\* placeholder sheet.
C6_FailSoftOnMalformedStructure ==
    (variant = "converter" /\ Malformed(data))
        => /\ wbpc # "raised"
           /\ wbpc = "returned" => wb = <<PlaceholderSheet>>

\* C9: when a usable measurement exists, converter.py's workbook ends with
\* exactly one sheet "All Data" whose data rows are the data rows of the
\* group sheets concatenated in group order, then stroke order.
C9_AllDataIsConcatenation ==
    (wbpc = "returned" /\ variant = "converter" /\ AnyUsable(data))
        => /\ Len(wb) >= 2
           /\ wb[Len(wb)].title = "All Data"
           /\ \A i \in 1..(Len(wb) - 1) : wb[i].title # "All Data"
           /\ wb[Len(wb)].data = ConcatData(GroupSheets(wb))

\* The strokes of a report that carry a usable measurement, over all groups.
RECURSIVE UsableTotal(_)
UsableTotal(groups) ==
    IF groups = <<>> THEN 0
    ELSE UsableCount(Head(groups)) + UsableTotal(Tail(groups))

\* A stroke record without a measurement: the key is missing or null, or
\* the measurement is an empty record.
WithoutMeasurement(s) ==
    IsDict(s) /\ ~Truthy(Get(s, "Measurement"))

\* C21: a stroke without a measurement (key missing, null or an empty
\* record) is skipped by converter.py: the group sheets together hold one
\* data row per stroke with a usable measurement, the aggregate sheet holds
\* as many, and such a stroke raises nothing.
C21_StrokeWithoutMeasurementSkipped ==
    (variant = "converter" /\ wbpc \in {"returned", "raised"}
        /\ \E i \in 1..Len(GroupsIn(data)) :
            \E k \in 1..Len(StrokesIn(GroupsIn(data)[i])) :
                WithoutMeasurement(StrokesIn(GroupsIn(data)[i])[k]))
        => /\ ~Malformed(data) => wbpc = "returned"
           /\ wbpc = "returned" =>
                /\ Len(ConcatData(GroupSheets(wb))) = UsableTotal(GroupsIn(data))
                /\ Len(all_rows) = UsableTotal(GroupsIn(data))

(***************************************************************************)
(* The Best Swings section: append_best_swings (converter.py), called on   *)
(* a sheet that style_and_finalize_sheet has finished.  Cell numbers are   *)
(* in hundredths: 1.45 is 145, 10 is 1000.                                 *)
(***************************************************************************)
\* A row of the frame given its five filter values and its Time.
SwingRow(time, smash, ih, io, cp, fa) ==
    [c \in ColumnSet |->
        CASE c = "Time" -> time
          [] c = "Smash Factor" -> smash
          [] c = "Impact Height (mm)" -> ih
          [] c = "Impact Offset (mm)" -> io
          [] c = "Club Path (Deg)" -> cp
          [] c = "Face Angle (Deg)" -> fa
          [] OTHER -> JStr("")]

Blank == JStr("")
T1000 == JStr("2024-05-01 10:00:00")

\* Rows on the bounds, inside them, just outside each of them, with an
\* empty value, and two rows whose four distances add up to the same sum.
SwingRows ==
    { SwingRow(T1000, JNum(145), JNum(1000), JNum(-1000), JNum(400), JNum(-200)),
      SwingRow(T1000, JNum(150), JNum(100), JNum(100), JNum(100), JNum(20)),
      SwingRow(T1000, JNum(150), JNum(-200), JNum(120), JNum(0), JNum(0)),
      SwingRow(T1000, JNum(150), JNum(300), JNum(100), JNum(50), JNum(50)),
      SwingRow(T1000, JNum(144), JNum(0), JNum(0), JNum(0), JNum(0)),
      SwingRow(T1000, JNum(150), JNum(1001), JNum(0), JNum(0), JNum(0)),
      SwingRow(T1000, JNum(150), JNum(0), JNum(-1001), JNum(0), JNum(0)),
      SwingRow(T1000, JNum(150), JNum(0), JNum(0), JNum(-401), JNum(0)),
      SwingRow(T1000, JNum(150), JNum(0), JNum(0), JNum(0), JNum(201)),
      SwingRow(T1000, JNum(150), JNum(0), JNum(0), JNum(0), Blank),
      SwingRow(Blank, Blank, JNum(0), JNum(0), JNum(0), JNum(0)) }

\* The frames build_workbook_per_club hands over: every column went
\* through pd.to_numeric(errors="ignore").
SwingFrames ==
    {CoerceIgnore(rows) : rows \in UNION {[1..n -> SwingRows] : n \in 1..MaxBsRows}}

\* The rows of the sheet: the header and the data rows that
\* build_workbook_per_club appends, then what style_and_finalize_sheet
\* adds below them.
HeaderRow == [kind |-> "header", values |-> COLUMNS, border |-> FALSE]
DataRow(df, i) ==
    [kind |-> "data", values |-> dataframe_to_rows(df)[i], border |-> FALSE]
BlankRow == [kind |-> "blank", values |-> <<>>, border |-> FALSE]

\* for r in dataframe_to_rows(df, index=False, header=True): ws.append(r)
AppendedSheet(df) == <<HeaderRow>> \o [i \in 1..Len(df) |-> DataRow(df, i)]

\* ws.cell(row=r, ...) on a row beyond ws.max_row: the rows in between
\* exist and are blank.
PadTo(ws, r) ==
    ws \o [i \in 1..(r - 1 - Len(ws)) |-> BlankRow]

\* A variant of data_end that counts one row more.
data_end_one_more(header_row_idx, n_rows) == header_row_idx + n_rows + 1

data_start(header_row_idx) == header_row_idx + 1
data_end(header_row_idx, n_rows) == header_row_idx + n_rows

summary_labels == <<"Pos Av", "Neg Av", "1 Av", "Spread", "% Pos", "% Neg">>

\* f"{col_letter}{data_start}:{col_letter}{data_end}" and a single cell.
CellRange(c, first, last) == [col |-> c, first |-> first, last |-> last]
CellRef(c, r) == [col |-> c, row |-> r]

\* The six formulas of column c, as the functions they apply and the
\* range or the cells they apply them to.
formulas(c, first, last, pos_row, neg_row) ==
    LET data_range == CellRange(c, first, last)
    IN << [test |-> "COUNTIF>0", value |-> "AVERAGEIF>0", over |-> data_range],
          [test |-> "COUNTIF<0", value |-> "AVERAGEIF<0", over |-> data_range],
          [test |-> "COUNTA", value |-> "AVERAGE", over |-> data_range],
          [test |-> "AND(ISNUMBER,ISNUMBER)", value |-> "minus",
           left |-> CellRef(c, pos_row), right |-> CellRef(c, neg_row)],
          [test |-> "COUNTA", value |-> "COUNTIF>0/COUNTA", over |-> data_range],
          [test |-> "COUNTA", value |-> "COUNTIF<0/COUNTA", over |-> data_range] >>

\* Row summary_start + i - 1: the label in column 1, formula i of every
\* column from 2 to n_cols.
SummaryRow(i, n_cols, first, last, summary_start) ==
    [kind |-> "summary",
     values |-> [c \in 1..n_cols |->
                    IF c = 1 THEN summary_labels[i]
                    ELSE formulas(c, first, last, summary_start,
                                  summary_start + 1)[i]],
     border |-> FALSE]

\* style_and_finalize_sheet(ws, header_row_idx, n_cols, n_rows): the
\* rows of the sheet afterwards (the styles are left out).
style_and_finalize_sheet(ws, header_row_idx, n_cols, n_rows) ==
    LET first == data_start(header_row_idx)
        last == data_end(header_row_idx, n_rows)
        summary_start == last + 2
    IN PadTo(ws, summary_start)
        \o [i \in 1..Len(summary_labels) |->
                SummaryRow(i, n_cols, first, last, summary_start)]

\* The sheet as build_workbook_per_club hands it to append_best_swings.
FinalizedSheet(df) ==
    style_and_finalize_sheet(AppendedSheet(df), 1, Len(COLUMNS), Len(df))

\* df_num: pd.to_numeric(df_num[col], errors="coerce") on every column.
CoerceAll(rows) ==
    [i \in 1..Len(rows) |->
        [c \in ColumnSet |->
            IF IsNumericCell(rows[i][c]) THEN ToNumericCell(rows[i][c])
            ELSE NaN]]

\* abs(x)
Abs(n) == IF n < 0 THEN -n ELSE n

\* x >= bound and abs(x) <= bound on a cell of df_num: a comparison with
\* NaN is False.
AtLeast(c, bound) == c.t = "num" /\ c.v >= bound
AbsAtMost(c, bound) == c.t = "num" /\ Abs(c.v) <= bound
AbsBelow(c, bound) == c.t = "num" /\ Abs(c.v) < bound

\* A variant of qualifies with exclusive bounds.
qualifies_strict(row) ==
    /\ row["Smash Factor"].t = "num" /\ row["Smash Factor"].v > 145
    /\ AbsBelow(row["Impact Height (mm)"], 1000)
    /\ AbsBelow(row["Impact Offset (mm)"], 1000)
    /\ AbsBelow(row["Club Path (Deg)"], 400)
    /\ AbsBelow(row["Face Angle (Deg)"], 200)

\* qualifies(row)
qualifies(row) ==
    /\ AtLeast(row["Smash Factor"], 145)
    /\ AbsAtMost(row["Impact Height (mm)"], 1000)
    /\ AbsAtMost(row["Impact Offset (mm)"], 1000)
    /\ AbsAtMost(row["Club Path (Deg)"], 400)
    /\ AbsAtMost(row["Face Angle (Deg)"], 200)

\* The positions of a frame's rows that qualify, ascending: q_df.index.
RECURSIVE QIndex(_, _)
QIndex(rows, i) ==
    IF i > Len(rows) THEN <<>>
    ELSE (IF qualifies(rows[i]) THEN <<i>> ELSE <<>>) \o QIndex(rows, i + 1)

metric_cols ==
    <<"Impact Height (mm)", "Impact Offset (mm)", "Club Path (Deg)",
      "Face Angle (Deg)">>

\* q_df[metric_cols].abs().sum(axis=1) for one row.
dist(row) ==
    Abs(row[metric_cols[1]].v) + Abs(row[metric_cols[2]].v)
        + Abs(row[metric_cols[3]].v) + Abs(row[metric_cols[4]].v)

\* A variant of idxmin that answers the last label of the minimum.
idxmin_last(rows, idx) ==
    idx[CHOOSE k \in 1..Len(idx) :
            /\ \A j \in 1..Len(idx) : dist(rows[idx[k]]) <= dist(rows[idx[j]])
            /\ \A j \in (k + 1)..Len(idx) : dist(rows[idx[j]]) > dist(rows[idx[k]])]

\* dist.idxmin(): the label of the first row holding the minimum.
idxmin(rows, idx) ==
    idx[CHOOSE k \in 1..Len(idx) :
            /\ \A j \in 1..Len(idx) : dist(rows[idx[k]]) <= dist(rows[idx[j]])
            /\ \A j \in 1..(k - 1) : dist(rows[idx[j]]) > dist(rows[idx[k]])]

\* index_list.index(best_idx)
IndexOf(seq, x) ==
    (CHOOSE k \in 1..Len(seq) : seq[k] = x /\ \A j \in 1..(k - 1) : seq[j] # x) - 1

\* build_workbook_per_club has appended the header and the rows of df.
BsInit ==
    /\ bs_df \in SwingFrames
    /\ bs_ws = AppendedSheet(bs_df)
    /\ bspc = "finalize"
    /\ index_list = <<>>
    /\ first_q_excel_row = 0

\* style_and_finalize_sheet(ws, 1, len(COLUMNS), len(df.index)); then
\* append_best_swings(ws, df) is called.
BsFinalize ==
    /\ bspc = "finalize"
    /\ bs_ws' = style_and_finalize_sheet(bs_ws, 1, Len(COLUMNS), Len(bs_df))
    /\ bspc' = "start"
    /\ UNCHANGED <<bs_df, index_list, first_q_excel_row>>
    /\ UNCHANGED <<wbVars, batchVars, dlVars, ddVars, cvVars, hsVars, clVars>>

\* df_num, q_df and the two early returns.
BsFilter ==
    /\ bspc = "start"
    /\ LET q == QIndex(CoerceAll(bs_df), 1)
       IN /\ index_list' = q
          /\ bspc' = IF Len(bs_df) = 0 \/ q = <<>> THEN "returned" ELSE "write"
    /\ UNCHANGED <<bs_df, bs_ws, first_q_excel_row>>
    /\ UNCHANGED <<wbVars, batchVars, dlVars, ddVars, cvVars, hsVars, clVars>>

\* The title cell two rows below ws.max_row, then one row per row of q_df.
BsWrite ==
    /\ bspc = "write"
    /\ LET start_row == Len(bs_ws) + 2
           df_num == CoerceAll(bs_df)
       IN /\ first_q_excel_row' = start_row + 1
          /\ bs_ws' = PadTo(bs_ws, start_row)
                \o <<[kind |-> "best_title", values |-> <<"Best Swings">>,
                      border |-> FALSE]>>
                \o [k \in 1..Len(index_list) |->
                        [kind |-> "best_row",
                         values |-> dataframe_to_rows(df_num)[index_list[k]],
                         border |-> FALSE]]
    /\ bspc' = "border"
    /\ UNCHANGED <<bs_df, index_list>>
    /\ UNCHANGED <<wbVars, batchVars, dlVars, ddVars, cvVars, hsVars, clVars>>

\* best_idx, offset, best_excel_row and the border on that row.
BsBorder ==
    /\ bspc = "border"
    /\ LET best_idx == idxmin(CoerceAll(bs_df), index_list)
           offset == IndexOf(index_list, best_idx)
           best_excel_row == first_q_excel_row + offset
       IN bs_ws' = [bs_ws EXCEPT ![best_excel_row].border = TRUE]
    /\ bspc' = "returned"
    /\ UNCHANGED <<bs_df, index_list, first_q_excel_row>>
    /\ UNCHANGED <<wbVars, batchVars, dlVars, ddVars, cvVars, hsVars, clVars>>

(***************************************************************************)
(* Properties of the Best Swings section.                                  *)
(***************************************************************************)
\* The row of the frame at position i passes the five inclusive bounds.
RowQualifies(i) ==
    LET row == bs_df[i]
        num(c) == row[c].t = "num"
    IN /\ num("Smash Factor") /\ row["Smash Factor"].v >= 145
       /\ num("Impact Height (mm)") /\ Abs(row["Impact Height (mm)"].v) <= 1000
       /\ num("Impact Offset (mm)") /\ Abs(row["Impact Offset (mm)"].v) <= 1000
       /\ num("Club Path (Deg)") /\ Abs(row["Club Path (Deg)"].v) <= 400
       /\ num("Face Angle (Deg)") /\ Abs(row["Face Angle (Deg)"].v) <= 200

\* The positions of the qualifying rows in source order.
RECURSIVE QualifyingFrom(_)
QualifyingFrom(i) ==
    IF i > Len(bs_df) THEN <<>>
    ELSE (IF RowQualifies(i) THEN <<i>> ELSE <<>>) \o QualifyingFrom(i + 1)

\* The sheet rows of one kind, top to bottom.
RECURSIVE RowsOfKind(_, _)
RowsOfKind(ws, kind) ==
    IF ws = <<>> THEN <<>>
    ELSE (IF Head(ws).kind = kind THEN <<Head(ws)>> ELSE <<>>)
         \o RowsOfKind(Tail(ws), kind)

\* The sum of the four distances of the frame's row i.
DistanceSum(i) ==
    Abs(bs_df[i]["Impact Height (mm)"].v) + Abs(bs_df[i]["Impact Offset (mm)"].v)
        + Abs(bs_df[i]["Club Path (Deg)"].v) + Abs(bs_df[i]["Face Angle (Deg)"].v)

C15_BestSwingsAreTheQualifyingRows ==
    bspc = "returned"
        => LET q == QualifyingFrom(1)
               best == RowsOfKind(bs_ws, "best_row")
           IN /\ Len(best) = Len(q)
              /\ \A k \in 1..Len(q) :
                    \A n \in 2..Len(COLUMNS) :
                        best[k].values[n] = ToNumericCell(bs_df[q[k]][COLUMNS[n]])
              /\ Len(RowsOfKind(bs_ws, "best_title")) = (IF q = <<>> THEN 0 ELSE 1)
              /\ q = <<>> => bs_ws = FinalizedSheet(bs_df)
              /\ SubSeq(bs_ws, 1, Len(bs_df) + 8) = FinalizedSheet(bs_df)

\* A row on all five bounds is in the section; a row just outside one bound
\* and a row with an empty value are not.
C15_Witness ==
    /\ bspc = "returned"
    /\ Len(bs_df) = 3
    /\ bs_df[1]["Smash Factor"] = JNum(145)
    /\ bs_df[1]["Impact Height (mm)"] = JNum(1000)
    /\ bs_df[1]["Face Angle (Deg)"] = JNum(-200)
    /\ bs_df[2]["Face Angle (Deg)"] = NaN
    /\ bs_df[3]["Impact Height (mm)"] = JNum(1001)
    /\ QualifyingFrom(1) = <<1>>
    /\ Len(RowsOfKind(bs_ws, "best_row")) = 1

\* C23: every row of the Best Swings section is a copy of its qualifying
\* row of the main data range: in each of the 31 columns, Time included,
\* the cell holds the value of the same column of that data row.
C23_BestSwingsRowsAreVerbatimCopies ==
    bspc = "returned"
        => LET q == QualifyingFrom(1)
               best == RowsOfKind(bs_ws, "best_row")
               main == RowsOfKind(bs_ws, "data")
           IN /\ Len(best) = Len(q)
              /\ \A k \in 1..Len(q) :
                    \A n \in 1..Len(COLUMNS) :
                        best[k].values[n] = main[q[k]].values[n]

\* The functions of the six summary rows, top to bottom: average of the
\* positive values, of the negative values, of all values, the spread,
\* the share of positive and of negative values.
SummaryOrder ==
    <<"AVERAGEIF>0", "AVERAGEIF<0", "AVERAGE", "minus", "COUNTIF>0/COUNTA",
      "COUNTIF<0/COUNTA">>

\* C27: on a sheet with N >= 1 data rows in rows 2..N+1,
\* style_and_finalize_sheet leaves row N+2 blank and writes six summary
\* rows in rows N+3..N+8 in the order positive average, negative average,
\* average, spread, share positive, share negative; in every column 2..31
\* the five range formulas range over rows 2..N+1 of that column and the
\* spread refers to the positive- and negative-average cells of that
\* column.
C27_SummaryRowsBelowData ==
    (bspc # "finalize" /\ bspc # "off")
        => LET N == Len(bs_df)
           IN /\ N >= 1
              /\ \A r \in 2..(N + 1) : bs_ws[r].kind = "data"
              /\ bs_ws[N + 2] = BlankRow
              /\ \A i \in 1..6 :
                    LET row == bs_ws[N + 2 + i]
                    IN /\ row.kind = "summary"
                       /\ Len(row.values) = 31
                       /\ \A c \in 2..31 :
                            /\ row.values[c].value = SummaryOrder[i]
                            /\ IF i = 4
                               THEN /\ row.values[c].left = [col |-> c, row |-> N + 3]
                                    /\ row.values[c].right = [col |-> c, row |-> N + 4]
                               ELSE row.values[c].over =
                                        [col |-> c, first |-> 2, last |-> N + 1]
              /\ \A r \in 1..Len(bs_ws) :
                    bs_ws[r].kind = "summary" => r \in (N + 3)..(N + 8)

\* A sheet of three data rows was finalized: row 5 is blank, rows 6 to 11
\* hold the summaries.
C27_Witness ==
    /\ bspc = "start"
    /\ Len(bs_df) = 3
    /\ Len(bs_ws) = 11
    /\ bs_ws[4].kind = "data"
    /\ bs_ws[5].kind = "blank"
    /\ bs_ws[6].kind = "summary"
    /\ bs_ws[11].values[31].over = [col |-> 31, first |-> 2, last |-> 4]

\* No row passes the bounds and nothing was appended.
C15_WitnessNone ==
    /\ bspc = "returned"
    /\ QualifyingFrom(1) = <<>>
    /\ bs_ws = FinalizedSheet(bs_df)

(***************************************************************************)
(* Metadata enrichment: fetch_report_metadata and                          *)
(* fetch_report_metadata_batch (trackman_api.py).                          *)
(***************************************************************************)
ReportIds == {"1f0e-a", "1f0e-b"}

\* What the metadata request can meet: an exception of requests.post (a
\* timeout, a connection error), a status with a body; a body that is no
\* JSON is a string, a JSON body is the value it parses to.
HttpOk(body) == [exc |-> "none", status |-> 200, body |-> body]
HttpError(status) == [exc |-> "none", status |-> status, body |-> JStr("error")]
HttpRaised == [exc |-> "Timeout", status |-> 0, body |-> JNull]

MetaResponses ==
    { HttpOk(JDict([Time |-> JStr("2024-05-01T10:00:00Z"),
                    Updated |-> JStr("2024-05-01T10:00:05+00:00"),
                    Kind |-> JStr("MultiGroupReport")])),
      HttpOk(JStr("<html>")),
      HttpError(500),
      HttpRaised }

\* a or b
PyOr(a, b) == IF Truthy(a) THEN a ELSE b

Returned(v) == [raised |-> FALSE, value |-> v]

\* A variant of fetch_report_metadata that answers a failure with a record
\* of empty fields instead of None.
fetch_report_metadata_always_record(report_id, r) ==
    IF r.exc = "none" /\ r.status = 200 /\ IsDict(r.body)
    THEN Returned(JDict([id |-> JStr(report_id),
                         created |-> PyOr(Get(r.body, "Time"), Get(r.body, "Updated")),
                         kind |-> Get(r.body, "Kind")]))
    ELSE Returned(JDict([id |-> JStr(report_id), created |-> JNull, kind |-> JNull]))

\* fetch_report_metadata: None on an exception, on a status other than
\* 200 and on a body that is no JSON record; otherwise id, created, kind.
fetch_report_metadata(report_id, r) ==
    IF r.exc # "none" THEN Returned(JNull)
    ELSE IF r.status # 200 THEN Returned(JNull)
    ELSE IF ~IsDict(r.body) THEN Returned(JNull)
    ELSE Returned(JDict([id |-> JStr(report_id),
                         created |-> PyOr(Get(r.body, "Time"), Get(r.body, "Updated")),
                         kind |-> Get(r.body, "Kind")]))

NoResponse == [exc |-> "none", status |-> 0, body |-> JNull]

\* executor.submit(fetch_single, rid) for index idx: a queued future.
NewFuture(rid, idx) ==
    [rid |-> rid, idx |-> idx, state |-> "pending", resp |-> NoResponse,
     outcome |-> Returned(JNull), yielded |-> 0]

Running == {i \in 1..Len(futs) : futs[i].state = "running"}
Pending == {i \in 1..Len(futs) : futs[i].state = "pending"}
Yielded == {i \in 1..Len(futs) : futs[i].yielded > 0}

\* A variant of the index lookup that numbers futures as they complete.
completion_order_index(i) == Cardinality(Yielded) + 1

\* future_to_index[future]
future_to_index(i) == futs[i].idx

BatchInit ==
    /\ report_ids \in UNION {[1..n -> ReportIds] : n \in 0..MaxIds}
    /\ max_workers \in 1..MaxWorkers
    /\ bpc = "start"
    /\ futs = <<>>
    /\ results = <<>>

\* max_workers: int = 20 in the signature of fetch_report_metadata_batch.
max_workers_default == 20

\* The identifiers of a call that leaves max_workers out.
DefaultCallIds == 6
DefaultCallReportIds ==
    <<"1f0e-a", "1f0e-b", "1f0e-c", "1f0e-d", "1f0e-e", "1f0e-f", "1f0e-g">>

\* fetch_report_metadata_batch(token, report_ids): max_workers takes the
\* default of the signature.
BatchInitDefault ==
    /\ report_ids = SubSeq(DefaultCallReportIds, 1, DefaultCallIds)
    /\ max_workers = max_workers_default
    /\ bpc = "start"
    /\ futs = <<>>
    /\ results = <<>>

\* results = [None] * len(report_ids); the executor is created.
BatchStart ==
    /\ bpc = "start"
    /\ results' = [i \in 1..Len(report_ids) |-> JNull]
    /\ bpc' = "submit"
    /\ UNCHANGED <<report_ids, max_workers, futs>>
    /\ UNCHANGED <<wbVars, dlVars, ddVars, extVars>>

\* The dict comprehension submits the next identifier.
Submit ==
    /\ bpc = "submit"
    /\ Len(futs) < Len(report_ids)
    /\ futs' = Append(futs, NewFuture(report_ids[Len(futs) + 1], Len(futs) + 1))
    /\ UNCHANGED <<report_ids, max_workers, bpc, results>>
    /\ UNCHANGED <<wbVars, dlVars, ddVars, extVars>>

\* A variant of the pool size that ignores the caller's argument and uses
\* the signature's default.
pool_default_workers == 20

\* ThreadPoolExecutor(max_workers=max_workers): the pool's thread limit.
pool_max_workers == max_workers

\* A pool thread takes the oldest queued call; the pool has at most
\* max_workers threads.
WorkerStart(i) ==
    /\ bpc = "submit"
    /\ i \in Pending
    /\ \A j \in Pending : i <= j
    /\ Cardinality(Running) < pool_max_workers
    /\ futs' = [futs EXCEPT ![i].state = "running"]
    /\ UNCHANGED <<report_ids, max_workers, bpc, results>>
    /\ UNCHANGED <<wbVars, dlVars, ddVars, extVars>>

\* The request of a running call ends and fetch_single returns.
WorkerFinish(i, r) ==
    /\ bpc = "submit"
    /\ i \in Running
    /\ futs' = [futs EXCEPT ![i].state = "finished",
                            ![i].resp = r,
                            ![i].outcome = fetch_report_metadata(futs[i].rid, r)]
    /\ UNCHANGED <<report_ids, max_workers, bpc, results>>
    /\ UNCHANGED <<wbVars, dlVars, ddVars, extVars>>

\* as_completed yields a finished future; the loop body stores its result
\* (None when future.result() raises) at the future's index.
Collect(i) ==
    /\ bpc = "submit"
    /\ Len(futs) = Len(report_ids)
    /\ i \in 1..Len(futs)
    /\ futs[i].state = "finished"
    /\ futs[i].yielded = 0
    /\ results' = [results EXCEPT ![future_to_index(i)] =
                        IF futs[i].outcome.raised THEN JNull
                        ELSE futs[i].outcome.value]
    /\ futs' = [futs EXCEPT ![i].yielded = Cardinality(Yielded) + 1]
    /\ UNCHANGED <<report_ids, max_workers, bpc>>
    /\ UNCHANGED <<wbVars, dlVars, ddVars, extVars>>

\* Every future was yielded: the with block ends, return results.
BatchReturn ==
    /\ bpc = "submit"
    /\ Len(futs) = Len(report_ids)
    /\ Yielded = 1..Len(futs)
    /\ bpc' = "returned"
    /\ UNCHANGED <<report_ids, max_workers, futs, results>>
    /\ UNCHANGED <<wbVars, dlVars, ddVars, extVars>>

(***************************************************************************)
(* Properties of the metadata batch.                                       *)
(***************************************************************************)
\* The value the call of future i handed back (None when it raised).
OutcomeValue(i) ==
    IF futs[i].outcome.raised THEN JNull ELSE futs[i].outcome.value

\* A request that failed: an exception of the HTTP client, a status other
\* than 200, or a body the worker cannot read as a JSON record.
RequestFailed(r) == r.exc # "none" \/ r.status # 200 \/ ~IsDict(r.body)

\* C2: the batch returns exactly len(report_ids) entries, entry i being the
\* outcome of the request made for report_ids[i], whatever the order in
\* which the requests complete and also when an identifier occurs twice.
C2_BatchPositionalCorrespondence ==
    bpc = "returned"
        => /\ Len(results) = Len(report_ids)
           /\ Len(futs) = Len(report_ids)
           /\ \A i \in 1..Len(report_ids) :
                /\ futs[i].rid = report_ids[i]
                /\ results[i] = OutcomeValue(i)

\* A batch of three with the first identifier repeated in the third place,
\* the two requests answered differently, and the third request completing
\* before the first.
C2_Witness ==
    /\ bpc = "returned"
    /\ Len(report_ids) = 3
    /\ report_ids[1] = report_ids[3]
    /\ report_ids[1] # report_ids[2]
    /\ futs[3].yielded < futs[1].yielded
    /\ results[1] # results[3]
    /\ results[3] = JNull

\* C3: a failed request leaves None in its own slot only; the slots of the
\* requests that succeeded hold their metadata; the batch call returns.
C3_FailureStaysInItsSlot ==
    /\ bpc \in {"start", "submit", "returned"}
    /\ bpc = "returned"
        => \A i \in 1..Len(report_ids) :
            IF RequestFailed(futs[i].resp)
            THEN results[i] = JNull
            ELSE /\ IsDict(results[i])
                 /\ Get(results[i], "id") = JStr(report_ids[i])
                 /\ Get(results[i], "created") =
                        PyOr(Get(futs[i].resp.body, "Time"),
                             Get(futs[i].resp.body, "Updated"))

\* A batch in which one request raised, one got status 500 and one succeeded.
C3_Witness ==
    /\ bpc = "returned"
    /\ \E i, j, k \in 1..Len(report_ids) :
        /\ futs[i].resp = HttpRaised /\ results[i] = JNull
        /\ futs[j].resp = HttpError(500) /\ results[j] = JNull
        /\ ~RequestFailed(futs[k].resp)
        /\ Get(results[k], "created") = JStr("2024-05-01T10:00:00Z")

\* C19: at every moment at most max_workers metadata requests are in
\* flight, max_workers being the caller's argument.
C19_AtMostKRequestsInFlight ==
    /\ bpc # "off" => max_workers >= 1
    /\ Cardinality(Running) <= max_workers

\* Two workers, three identifiers: two requests are in flight and the third
\* call waits in the queue.
C19_Witness ==
    /\ max_workers = 2
    /\ Len(futs) = 3
    /\ Cardinality(Running) = 2
    /\ Cardinality(Pending) = 1

\* "max_workers: Number of concurrent requests (default 5, ...)" in the
\* docstring of fetch_report_metadata_batch.
documented_default == 5

\* C26: a call of fetch_report_metadata_batch without a max_workers
\* argument has at most the documented default of 5 requests in flight.
C26_DefaultIsFiveInFlight ==
    (bpc # "off" /\ max_workers = max_workers_default)
        => Cardinality(Running) <= documented_default

(***************************************************************************)
(* Report retrieval: download_report (trackman_api.py) and the code that   *)
(* calls it, TrackmanApp.handle_cloud (trackman_gui.py) and                *)
(* TrackmanApp.on_report_selected (trackman_gui_app_v2.py, which builds    *)
(* the workbook with converter.py).                                        *)
(***************************************************************************)
\* The full-fetch bodies: two reports, a payload build_workbook_per_club
\* rejects, a JSON body that is no record, and a body that is no JSON.
ReportPayloads ==
    { JDict([StrokeGroups |->
                JList(<<JDict([Club |-> JStr("Driver"),
                               Strokes |-> JList(<<JDict([Measurement |-> MFull])>>)])>>)]),
      JDict([StrokeGroups |-> JList(<<>>)]),
      JDict([StrokeGroups |-> JNum(5)]) }

DownloadResponses ==
    {HttpOk(b) : b \in ReportPayloads \cup {JList(<<>>), JStr("<html>")}}
    \cup {HttpError(401), HttpError(500), HttpRaised}

\* The reports the selector offers: an identifier and its time.
SelectableReports ==
    {[id |-> i, time |-> t] :
        i \in ReportIds,
        t \in {[y |-> 2024, mo |-> 5, d |-> 1, h |-> 10],
                [y |-> 2024, mo |-> 5, d |-> 2, h |-> 9]}}

RAW_REPORT_PATH == "trackman_full_report.json"

\* out_dir / f"{time.strftime('%Y_%m_%d')}.xlsx"
OutPath(report) ==
    [dir |-> "C:\\Trackman\\Data",
     name |-> <<report.time.y, report.time.mo, report.time.d>>, ext |-> "xlsx"]

NoException == [type |-> "none"]

\* A variant of download_report that writes the body before it looks at
\* the status.
download_report_write_first(r, file) ==
    IF r.exc # "none"
    THEN [exc |-> [type |-> r.exc], path |-> "", file |-> file]
    ELSE IF r.status = 200
    THEN IF r.body.t = "str"
         THEN [exc |-> [type |-> "JSONDecodeError"], path |-> "", file |-> file]
         ELSE IF ~IsDict(r.body)
         THEN [exc |-> [type |-> "AttributeError"], path |-> "", file |-> file]
         ELSE [exc |-> NoException, path |-> "trackman_full_report.json",
               file |-> r.body]
    ELSE [exc |-> [type |-> "Exception", status |-> r.status, text |-> r.body.s],
          path |-> "", file |-> r.body]

\* download_report on response r with the raw-report file holding `file`:
\* the exception it raises or the path it returns, and the file afterwards.
download_report(r, file) ==
    IF r.exc # "none"
    THEN [exc |-> [type |-> r.exc], path |-> "", file |-> file]
    ELSE IF r.status = 200
    THEN IF r.body.t = "str"
         THEN [exc |-> [type |-> "JSONDecodeError"], path |-> "", file |-> file]
         ELSE IF ~IsDict(r.body)
         THEN [exc |-> [type |-> "AttributeError"], path |-> "", file |-> file]
         ELSE [exc |-> NoException, path |-> RAW_REPORT_PATH, file |-> r.body]
    ELSE [exc |-> [type |-> "Exception", status |-> r.status, text |-> r.body.s],
          path |-> "", file |-> file]

NoFiles == [p \in {} |-> <<>>]

\* The files with the workbook saved at path p: openpyxl's save opens the
\* path for writing, so a file already there is replaced.
Saved(files, p, book) ==
    [q \in DOMAIN files \cup {p} |-> IF q = p THEN book ELSE files[q]]

\* What a saved file holds: the workbook, remembered with the report it was
\* built from.
WorkbookOf(report, book) == [report |-> report.id, book |-> book]

DlInit ==
    /\ dlpc = "idle" /\ selected = [id |-> "", time |-> [y |-> 0, mo |-> 0, d |-> 0, h |-> 0]]
    /\ resp = NoResponse /\ rawFile = JAbsent /\ xlsxFiles = NoFiles
    /\ json_path = "" /\ dl_exc = NoException /\ shown = [kind |-> "none"]
    /\ calls = 0 /\ last200 = JAbsent

\* The operator picks a report: selected_report is set, the overlay shown.
SelectReport ==
    /\ dlpc = "idle"
    /\ calls < MaxCalls
    /\ selected' \in SelectableReports
    /\ calls' = calls + 1
    /\ dlpc' = "download"
    /\ UNCHANGED <<resp, rawFile, xlsxFiles, json_path, dl_exc, shown, last200>>
    /\ UNCHANGED <<wbVars, batchVars, ddVars, extVars>>

\* json_path = download_report(token, selected_report["id"])
DownloadReport ==
    /\ dlpc = "download"
    /\ \E r \in DownloadResponses :
        LET out == download_report(r, rawFile)
        IN /\ resp' = r
           /\ last200' = IF r.exc = "none" /\ r.status = 200 THEN r.body ELSE last200
           /\ rawFile' = out.file
           /\ json_path' = IF out.exc = NoException THEN out.path ELSE json_path
           /\ dl_exc' = out.exc
           /\ dlpc' = IF out.exc = NoException THEN "convert" ELSE "failed"
    /\ UNCHANGED <<selected, xlsxFiles, shown, calls>>
    /\ UNCHANGED <<wbVars, batchVars, ddVars, extVars>>

\* convert_json_to_excel: json.load of the raw-report file, then
\* build_workbook_per_club(data).
ConvertStart ==
    /\ dlpc = "convert"
    /\ data' = rawFile
    /\ wbpc' = "start"
    /\ stroke_groups' = JNull /\ gi' = 0 /\ wb' = <<>> /\ all_rows' = <<>>
    /\ exc' = "none"
    /\ dlpc' = "building"
    /\ UNCHANGED variant
    /\ UNCHANGED <<selected, resp, rawFile, xlsxFiles, json_path, dl_exc, shown, calls, last200>>
    /\ UNCHANGED <<batchVars, ddVars, extVars>>

\* wb.save(out_path), then the success message.
SaveWorkbook ==
    /\ dlpc = "building"
    /\ wbpc = "returned"
    /\ xlsxFiles' = Saved(xlsxFiles, OutPath(selected), WorkbookOf(selected, wb))
    /\ shown' = [kind |-> "info", path |-> OutPath(selected)]
    /\ dlpc' = "idle"
    /\ wbpc' = "off"
    /\ UNCHANGED <<variant, data, stroke_groups, gi, wb, all_rows, exc>>
    /\ UNCHANGED <<selected, resp, rawFile, json_path, dl_exc, calls, last200>>
    /\ UNCHANGED <<batchVars, ddVars, extVars>>

\* build_workbook_per_club raised: the exception leaves convert_json_to_excel.
ConvertRaised ==
    /\ dlpc = "building"
    /\ wbpc = "raised"
    /\ dl_exc' = [type |-> exc]
    /\ dlpc' = "failed"
    /\ wbpc' = "off"
    /\ UNCHANGED <<variant, data, stroke_groups, gi, wb, all_rows, exc>>
    /\ UNCHANGED <<selected, resp, rawFile, xlsxFiles, json_path, shown, calls, last200>>
    /\ UNCHANGED <<batchVars, ddVars, extVars>>

\* except Exception as e: hide_overlay(); messagebox.showerror("Error", str(e))
ShowError ==
    /\ dlpc = "failed"
    /\ shown' = [kind |-> "error", e |-> dl_exc]
    /\ dlpc' = "idle"
    /\ UNCHANGED <<selected, resp, rawFile, xlsxFiles, json_path, dl_exc, calls, last200>>
    /\ UNCHANGED <<wbVars, batchVars, ddVars, extVars>>

(***************************************************************************)
(* Properties of report retrieval.                                         *)
(***************************************************************************)
\* The current response carries a status other than 200.
Non200(r) == r.exc = "none" /\ r.status \notin {0, 200}

\* C7: when the full-fetch response has a status other than 200,
\* download_report raises an error carrying the status and the body text,
\* and on that path neither the raw-report file nor a workbook file is
\* created or modified: conversion and save do not run.
C7_Non200RaisesAndWritesNothing ==
    /\ [](dlpc = "failed" /\ Non200(resp)
            => dl_exc = [type |-> "Exception", status |-> resp.status,
                         text |-> resp.body.s])
    /\ [][Non200(resp')
            => /\ rawFile' = rawFile
               /\ xlsxFiles' = xlsxFiles
               /\ dlpc = "download" => dlpc' = "failed"
               /\ dlpc' \in {"failed", "idle", "download"}]_vars

\* A second retrieval answered with status 500 after a first one that was
\* saved: the error is on display and both files are still there.
C7_Witness ==
    /\ dlpc = "idle"
    /\ calls = 2
    /\ resp = HttpError(500)
    /\ shown = [kind |-> "error",
                e |-> [type |-> "Exception", status |-> 500, text |-> "error"]]
    /\ rawFile \in ReportPayloads
    /\ xlsxFiles # NoFiles

\* C8: between calls the raw-report file holds exactly the payload of the
\* most recent call that received status 200 (no file before the first).
C8_RawFileHoldsLast200Payload ==
    dlpc = "idle" => rawFile = last200

(***************************************************************************)
(* De-duplication of the discovered candidates in handle_cloud             *)
(* (trackman_gui.py and trackman_gui_app_v2.py hold the same loop).        *)
(***************************************************************************)
\* Identifiers found in the browser history; two differ only in letter case.
HistoryIds == ReportIds \cup {"1F0E-A"}

\* The two URL shapes get_all_report_ids_from_chrome recognises.
UrlForms == {"reports/", "?r="}

\* An entry of get_all_report_ids_from_chrome's result: rows come ordered by
\* last_visit_time descending, so position pos of n carries time n - pos.
Candidate(id, form, time) ==
    [id |-> id, url |-> [form |-> form, token |-> id], time |-> time]

\* The urls table holds each URL once.
CandidateLists ==
    UNION {
        { [i \in 1..n |-> Candidate(ids[i], forms[i], n - i)] :
            ids \in [1..n -> HistoryIds], forms \in [1..n -> UrlForms] }
        : n \in 1..MaxRaw }

DistinctUrls(rs) ==
    \A i, j \in 1..Len(rs) : rs[i].url = rs[j].url => i = j

\* A variant of seen.add that remembers the latest identifier only.
seen_forget(s, rid) == {rid}

\* seen.add(rid)
seen_add(s, rid) == s \cup {rid}

DdInit ==
    /\ raw_reports \in {rs \in CandidateLists : DistinctUrls(rs)}
    /\ ddpc = "loop"
    /\ di = 1
    /\ seen = {}
    /\ unique_reports = <<>>

\* One iteration of `for r in raw_reports`.
DedupVisit ==
    /\ ddpc = "loop"
    /\ di <= Len(raw_reports)
    /\ LET r == raw_reports[di]
           rid == r.id
       IN IF rid # "" /\ rid \notin seen
          THEN /\ seen' = seen_add(seen, rid)
               /\ unique_reports' = Append(unique_reports, r)
          ELSE UNCHANGED <<seen, unique_reports>>
    /\ di' = di + 1
    /\ UNCHANGED <<raw_reports, ddpc>>
    /\ UNCHANGED <<wbVars, batchVars, dlVars, extVars>>

\* The loop is exhausted; handle_cloud goes on with unique_reports.
DedupDone ==
    /\ ddpc = "loop"
    /\ di > Len(raw_reports)
    /\ ddpc' = "done"
    /\ UNCHANGED <<raw_reports, di, seen, unique_reports>>
    /\ UNCHANGED <<wbVars, batchVars, dlVars, extVars>>

(***************************************************************************)
(* Properties of the de-duplication.                                       *)
(***************************************************************************)
\* The position of the first candidate carrying identifier id.
FirstIndex(id) ==
    CHOOSE i \in 1..Len(raw_reports) :
        /\ raw_reports[i].id = id
        /\ \A j \in 1..(i - 1) : raw_reports[j].id # id

\* C10: after de-duplication every identifier of the candidates occurs
\* exactly once, the candidate kept for an identifier is its first
\* occurrence (URL and time included), and the kept candidates stand in the
\* order of their first occurrences.
C10_DedupKeepsFirstOccurrences ==
    ddpc = "done"
        => /\ {unique_reports[k].id : k \in 1..Len(unique_reports)}
                = {raw_reports[i].id : i \in 1..Len(raw_reports)}
           /\ \A k, l \in 1..Len(unique_reports) :
                unique_reports[k].id = unique_reports[l].id => k = l
           /\ \A k \in 1..Len(unique_reports) :
                unique_reports[k] = raw_reports[FirstIndex(unique_reports[k].id)]
           /\ \A k, l \in 1..Len(unique_reports) :
                k < l => FirstIndex(unique_reports[k].id)
                            < FirstIndex(unique_reports[l].id)

\* Three candidates, the first and the third for one report under two URLs.
C10_Witness ==
    /\ ddpc = "done"
    /\ Len(raw_reports) = 3
    /\ raw_reports[1].id = raw_reports[3].id
    /\ raw_reports[1].url # raw_reports[3].url
    /\ raw_reports[2].id # raw_reports[1].id
    /\ unique_reports = <<raw_reports[1], raw_reports[2]>>

\* The identifier in lower case.
LowerCase(id) == IF id = "1F0E-A" THEN "1f0e-a" ELSE id

\* C24: identifiers that differ only in letter case name the same report:
\* after de-duplication no two kept candidates have identifiers equal up
\* to case, and the candidate kept is the first of its report.
C24_IdentifiersCompareWithoutCase ==
    ddpc = "done"
        => /\ \A i, j \in 1..Len(unique_reports) :
                LowerCase(unique_reports[i].id) = LowerCase(unique_reports[j].id)
                    => i = j
           /\ \A i \in 1..Len(raw_reports) :
                \E k \in 1..Len(unique_reports) :
                    LowerCase(unique_reports[k].id) = LowerCase(raw_reports[i].id)
           /\ \A k \in 1..Len(unique_reports) :
                \E i \in 1..Len(raw_reports) :
                    /\ unique_reports[k] = raw_reports[i]
                    /\ \A j \in 1..(i - 1) :
                        LowerCase(raw_reports[j].id) # LowerCase(raw_reports[i].id)

(***************************************************************************)
(* The readers of the browser's stores: get_all_report_ids_from_chrome and *)
(* get_latest_report_id_from_chrome (trackman_api.py) and                  *)
(* extract_token_from_chrome (trackman_auth.py).                           *)
(*                                                                         *)
(* A URL is a host followed by segments, each a marker ("/reports/",      *)
(* "?r=", ...) and the text after it up to the next marker.  A text is     *)
(* named by a string; TokenLen and HexRun give its length and the number   *)
(* of its leading characters in [0-9a-fA-F-].                              *)
(***************************************************************************)
VendorHost == "web-dynamic-reports.trackmangolf.com"

Tokens == {"1f0e-a", "1f0e-b", "1f0e", "1f0e-a7", "1f0g-a", "1"}

\* "1f0e-a" and "1f0e-b" name two 36-character identifiers, "1f0e" the
\* first 35 characters of one, "1f0e-a7" the first followed by a "7",
\* "1f0g-a" 36 characters with a "g" in fourth place.
TokenLen ==
    [x \in Tokens |->
        CASE x = "1f0e" -> 35
          [] x = "1f0e-a7" -> 37
          [] x = "1" -> 1
          [] OTHER -> 36]

HexRun ==
    [x \in Tokens |->
        CASE x = "1f0g-a" -> 3
          [] OTHER -> TokenLen[x]]

\* The first 36 characters of a text with at least 36 of them.
First36 ==
    [x \in {"1f0e-a", "1f0e-b", "1f0e-a7", "1f0g-a"} |->
        IF x = "1f0e-a7" THEN "1f0e-a" ELSE x]

Url(host, segs) == [host |-> host, segs |-> segs]
Seg(marker, text) == [marker |-> marker, text |-> text]

HistoryUrls ==
    { Url(VendorHost, <<Seg("/reports/", "1f0e-a")>>),
      Url(VendorHost, <<Seg("/?r=", "1f0e-a")>>),
      Url(VendorHost, <<Seg("/report?x=", "1")>>),
      Url(VendorHost, <<Seg("/reports/", "1f0e")>>),
      Url(VendorHost, <<Seg("/reports/", "1f0e-a7")>>),
      Url(VendorHost, <<Seg("/reports/", "1f0g-a")>>),
      Url(VendorHost, <<Seg("/view?bar=", "1f0e-b")>>),
      Url(VendorHost, <<Seg("/reports/", "1f0e"), Seg("&r=", "1f0e-b")>>) }

\* The markers that end in "reports/", "?r=" or "&r=".
RegexMarkers == {"/reports/", "/?r=", "&r="}

\* The markers that contain "r=".
MarkersWithREq == {"/?r=", "&r=", "/view?bar="}

\* re.search(r"(?:reports/|[?&]r=)([0-9a-fA-F-]{36})", url): the index of
\* the first segment where the pattern matches, 0 when there is none.
re_search(url) ==
    LET hits == {k \in 1..Len(url.segs) :
                    /\ url.segs[k].marker \in RegexMarkers
                    /\ HexRun[url.segs[k].text] >= 36}
    IN IF hits = {} THEN 0 ELSE CHOOSE k \in hits : \A j \in hits : k <= j

\* match.group(1)
group1(url, k) == First36[url.segs[k].text]

\* url LIKE '%trackmangolf.com/reports/%' OR url LIKE '%trackmangolf.com%r=%'
LikeReports(url) ==
    /\ url.host = VendorHost
    /\ \/ url.segs[1].marker = "/reports/"
       \/ \E k \in 1..Len(url.segs) : url.segs[k].marker \in MarkersWithREq

\* url LIKE '%trackmangolf.com%'
LikeVendor(url) == url.host = VendorHost

\* Visit times are small integers.  Two stand for values the column can
\* hold besides ordinary times: NullVisit for NULL, which ORDER BY puts
\* below every number, and FarVisit for a number of microseconds that
\* leads past the year 9999.
NullVisit == 0
FarVisit == 9

\* What timedelta(microseconds=chrome_time) or the addition to
\* datetime(1601, 1, 1) raises: TypeError on None, OverflowError on a
\* date out of range.
chrome_time_raises(chrome_time) ==
    IF chrome_time = NullVisit THEN "TypeError"
    ELSE IF chrome_time >= FarVisit THEN "OverflowError"
    ELSE "none"

\* datetime(1601, 1, 1) + timedelta(microseconds=chrome_time)
chrome_time_to_datetime(chrome_time) ==
    [year0 |-> 1601, microseconds |-> chrome_time, tz |-> "naive"]

\* A variant of the ordering that lists the oldest visit first.
order_by_last_visit_asc(rows) ==
    LET n == Cardinality(rows)
    IN [i \in 1..n |->
            CHOOSE r \in rows :
                Cardinality({q \in rows : q.last_visit_time < r.last_visit_time}) = i - 1]

\* ORDER BY last_visit_time DESC on rows with distinct visit times.
order_by_last_visit_desc(rows) ==
    LET n == Cardinality(rows)
    IN [i \in 1..n |->
            CHOOSE r \in rows :
                Cardinality({q \in rows : q.last_visit_time > r.last_visit_time}) = i - 1]

\* LIMIT n
Limit(seq, n) == SubSeq(seq, 1, IF Len(seq) < n THEN Len(seq) ELSE n)

\* The SELECT of get_all_report_ids_from_chrome.
select_reports(rows, limit) ==
    Limit(order_by_last_visit_desc({r \in rows : LikeReports(r.url)}), limit)

\* The SELECT of get_latest_report_id_from_chrome (LIMIT 50).
select_vendor(rows) ==
    Limit(order_by_last_visit_desc({r \in rows : LikeVendor(r.url)}), 50)

\* The urls table: each URL once, with its last visit time.
HistoryTables ==
    UNION { UNION { { {[url |-> u, last_visit_time |-> t[u]] : u \in us} :
                        t \in {f \in [us -> 1..Cardinality(us)] :
                                    \A a, b \in us : f[a] = f[b] => a = b} }
                    : us \in {x \in SUBSET HistoryUrls : Cardinality(x) = n} }
            : n \in 0..MaxHistory }

\* Stores of one or two report rows whose visit times include NULL and a
\* value out of the range of datetime.
VisitTimeUrls ==
    { Url(VendorHost, <<Seg("/reports/", "1f0e-a")>>),
      Url(VendorHost, <<Seg("/?r=", "1f0e-b")>>),
      Url(VendorHost, <<Seg("/reports/", "1f0e")>>) }

VisitTimeTables ==
    UNION { { {[url |-> u, last_visit_time |-> t[u]] : u \in us} :
                t \in {f \in [us -> {NullVisit, 1, 2, FarVisit}] :
                            \A a, b \in us : f[a] = f[b] => a = b} }
            : us \in (SUBSET VisitTimeUrls) \ {{}} }

\* get_all_report_ids_from_chrome was called on such a store.
HsInitVisitTimes ==
    /\ hs_fn = "get_all_report_ids_from_chrome"
    /\ hs_limit \in {1, 2}
    /\ hs_store \in {[exists |-> TRUE, rows |-> t, cookie |-> "none"] :
                        t \in VisitTimeTables}
    /\ hspc = "check"
    /\ tmp_copy = "absent"
    /\ hs_conn = "none"
    /\ hs_rows = <<>>
    /\ hs_i = 0
    /\ hs_results = JNull
    /\ hs_pending = "none"
    /\ hs_unlink = "none"

\* The cookie values extract_token_from_chrome may meet for "appsession".
CookieValues == {"none", "", "token-1"}

Limits == {1, 2}

ReaderFunctions ==
    {"get_all_report_ids_from_chrome", "get_latest_report_id_from_chrome",
     "extract_token_from_chrome"}

\* The reader was called; the temporary copy does not exist yet.
HsInit ==
    /\ hs_fn \in ReaderFunctions
    /\ \/ /\ hs_fn = "get_all_report_ids_from_chrome"
          /\ hs_limit \in Limits
          /\ hs_store \in {[exists |-> e, rows |-> t, cookie |-> "none"] :
                                e \in BOOLEAN, t \in HistoryTables}
          /\ hs_store.exists \/ hs_store.rows = {}
          /\ hspc = "check"
       \/ /\ hs_fn = "get_latest_report_id_from_chrome"
          /\ hs_limit = 50
          /\ hs_store \in {[exists |-> e, rows |-> t, cookie |-> "none"] :
                                e \in BOOLEAN,
                                t \in {x \in HistoryTables : Cardinality(x) <= 1}}
          /\ hs_store.exists \/ hs_store.rows = {}
          /\ hspc = "copy"
       \/ /\ hs_fn = "extract_token_from_chrome"
          /\ hs_limit = 0
          /\ hs_store \in {[exists |-> e, rows |-> {}, cookie |-> c] :
                                e \in BOOLEAN, c \in CookieValues}
          /\ hs_store.exists \/ hs_store.cookie = "none"
          /\ hspc = "check"
    /\ tmp_copy = "absent"
    /\ hs_conn = "none"
    /\ hs_rows = <<>>
    /\ hs_i = 0
    /\ hs_results = JNull
    /\ hs_pending = "none"
    /\ hs_unlink = "none"

HsRest == <<wbVars, batchVars, dlVars, ddVars, cvVars, bsVars, clVars>>

\* if not chrome_path.exists(): raise ...   /   if not cookie_db_path: return None
HsCheck ==
    /\ hspc = "check"
    /\ IF hs_store.exists
       THEN hspc' = "copy" /\ UNCHANGED hs_pending
       ELSE IF hs_fn = "get_all_report_ids_from_chrome"
            THEN hspc' = "raised" /\ hs_pending' = "Chrome history not found"
            ELSE hspc' = "returned" /\ UNCHANGED hs_pending
    /\ UNCHANGED <<hs_fn, hs_limit, hs_store, tmp_copy, hs_conn, hs_rows, hs_i,
                   hs_results, hs_unlink>>
    /\ UNCHANGED HsRest

\* The copy of the store to the temporary file: it succeeds, or it fails
\* before the destination was created, or it fails after that.
HsCopy ==
    /\ hspc = "copy"
    /\ \E outcome \in {"ok", "failed before create", "failed after create"} :
        /\ ~hs_store.exists => outcome = "failed before create"
        /\ tmp_copy' = CASE outcome = "ok" -> "complete"
                          [] outcome = "failed after create" -> "partial"
                          [] OTHER -> tmp_copy
        /\ IF outcome = "ok"
           THEN hspc' = "query" /\ UNCHANGED hs_pending
           ELSE CASE hs_fn = "get_all_report_ids_from_chrome" ->
                        hspc' = "raised" /\ hs_pending' = "Failed to copy Chrome history"
                  [] hs_fn = "get_latest_report_id_from_chrome" ->
                        hspc' = "finally" /\ hs_pending' = "return"
                  [] OTHER ->
                        hspc' = "returned" /\ UNCHANGED hs_pending
    /\ UNCHANGED <<hs_fn, hs_limit, hs_store, hs_conn, hs_rows, hs_i, hs_results,
                   hs_unlink>>
    /\ UNCHANGED HsRest

\* sqlite3.connect, execute, fetchall, conn.close(): the rows, or an
\* exception that leaves the connection open.
HsQuery ==
    /\ hspc = "query"
    /\ \/ /\ hs_conn' = IF hs_fn = "extract_token_from_chrome" THEN "open" ELSE "closed"
          /\ hs_rows' = CASE hs_fn = "get_all_report_ids_from_chrome" ->
                                select_reports(hs_store.rows, hs_limit)
                           [] hs_fn = "get_latest_report_id_from_chrome" ->
                                select_vendor(hs_store.rows)
                           [] OTHER -> <<>>
          /\ hspc' = IF hs_fn = "get_all_report_ids_from_chrome" THEN "finally" ELSE "scan"
          /\ hs_pending' = IF hs_fn = "get_all_report_ids_from_chrome" THEN "loop" ELSE "none"
       \/ /\ hs_conn' = "open"
          /\ hs_rows' = <<>>
          /\ hspc' = "finally"
          /\ hs_pending' = IF hs_fn = "get_all_report_ids_from_chrome"
                           THEN "Error reading Chrome history" ELSE "return"
    /\ UNCHANGED <<hs_fn, hs_limit, hs_store, tmp_copy, hs_i, hs_results, hs_unlink>>
    /\ UNCHANGED HsRest

\* get_latest_report_id_from_chrome: the first row whose URL matches gives
\* the identifier.  extract_token_from_chrome: the appsession cookie's value.
HsScan ==
    /\ hspc = "scan"
    /\ hs_results' =
            IF hs_fn = "get_latest_report_id_from_chrome"
            THEN LET hits == {k \in 1..Len(hs_rows) : re_search(hs_rows[k].url) # 0}
                 IN IF hits = {} THEN JNull
                    ELSE LET k == CHOOSE k \in hits : \A j \in hits : k <= j
                         IN JStr(group1(hs_rows[k].url, re_search(hs_rows[k].url)))
            ELSE IF hs_store.cookie \in {"none", ""} THEN JNull
                 ELSE JStr(hs_store.cookie)
    /\ hspc' = "finally"
    /\ hs_pending' = "return"
    /\ UNCHANGED <<hs_fn, hs_limit, hs_store, tmp_copy, hs_conn, hs_rows, hs_i,
                   hs_unlink>>
    /\ UNCHANGED HsRest

\* The finally block: (extract_token_from_chrome closes the connection,)
\* the temporary copy is unlinked; an exception of unlink is swallowed.
HsCleanup ==
    /\ hspc = "finally"
    /\ hs_conn' = IF hs_fn = "extract_token_from_chrome" /\ hs_conn = "open"
                  THEN "closed" ELSE hs_conn
    /\ IF hs_fn # "get_all_report_ids_from_chrome" /\ tmp_copy = "absent"
       THEN UNCHANGED <<tmp_copy, hs_unlink>>
       ELSE \/ tmp_copy' = "absent" /\ hs_unlink' = "done"
            \/ /\ tmp_copy # "absent"
               /\ UNCHANGED tmp_copy /\ hs_unlink' = "failed"
    /\ hspc' = CASE hs_pending = "loop" -> "loop"
                  [] hs_pending = "return" -> "returned"
                  [] OTHER -> "raised"
    /\ hs_i' = IF hs_pending = "loop" THEN 1 ELSE hs_i
    /\ hs_results' = IF hs_pending = "loop" THEN <<>> ELSE hs_results
    /\ UNCHANGED <<hs_fn, hs_limit, hs_store, hs_rows, hs_pending>>
    /\ UNCHANGED HsRest

\* One iteration of `for url, visit_time in rows`; an exception of
\* chrome_time_to_datetime leaves the function, the loop has no handler.
HsExtract ==
    /\ hspc = "loop"
    /\ hs_i <= Len(hs_rows)
    /\ LET url == hs_rows[hs_i].url
           visit_time == hs_rows[hs_i].last_visit_time
           k == re_search(url)
       IN IF k # 0 /\ chrome_time_raises(visit_time) # "none"
          THEN /\ hspc' = "raised"
               /\ hs_pending' = chrome_time_raises(visit_time)
               /\ UNCHANGED <<hs_results, hs_i>>
          ELSE /\ hs_results' =
                    IF k # 0
                    THEN Append(hs_results,
                                [id |-> group1(url, k), url |-> url,
                                 time |-> chrome_time_to_datetime(visit_time)])
                    ELSE hs_results
               /\ hs_i' = hs_i + 1
               /\ UNCHANGED <<hspc, hs_pending>>
    /\ UNCHANGED <<hs_fn, hs_limit, hs_store, tmp_copy, hs_conn, hs_rows, hs_unlink>>
    /\ UNCHANGED HsRest

\* return results
HsReturn ==
    /\ hspc = "loop"
    /\ hs_i > Len(hs_rows)
    /\ hspc' = "returned"
    /\ UNCHANGED <<hs_fn, hs_limit, hs_store, tmp_copy, hs_conn, hs_rows, hs_i,
                   hs_results, hs_pending, hs_unlink>>
    /\ UNCHANGED HsRest

(***************************************************************************)
(* Properties of the readers of the browser's stores.                      *)
(***************************************************************************)
\* The segments of a URL where "reports/" or an "r=" query parameter is
\* followed by a token of exactly 36 hex-digit or hyphen characters.
WellFormedAt(url) ==
    {k \in 1..Len(url.segs) :
        /\ url.segs[k].marker \in {"/reports/", "/?r=", "&r="}
        /\ TokenLen[url.segs[k].text] = 36
        /\ HexRun[url.segs[k].text] = 36}

GetAllReturned == hs_fn = "get_all_report_ids_from_chrome" /\ hspc = "returned"

\* The candidates a fetched row gave.
CandidatesOf(url) == {j \in 1..Len(hs_results) : hs_results[j].url = url}

\* C11: a fetched row yields a candidate exactly when its URL holds a
\* well-formed token, and the candidate's id is that token; a token that
\* is too short, too long or has other characters yields none.
C11_CandidateIffWellFormedToken ==
    GetAllReturned
        => \A i \in 1..Len(hs_rows) :
            LET url == hs_rows[i].url
            IN /\ (CandidatesOf(url) # {}) <=> (WellFormedAt(url) # {})
               /\ \A j \in CandidatesOf(url) :
                    \E k \in WellFormedAt(url) : hs_results[j].id = url.segs[k].text

\* The rows of the store that reference the vendor's report pages.
VendorRows ==
    {r \in hs_store.rows :
        /\ r.url.host = VendorHost
        /\ \/ r.url.segs[1].marker = "/reports/"
           \/ \E k \in 1..Len(r.url.segs) :
                r.url.segs[k].marker \in {"/?r=", "&r=", "/view?bar="}}

\* The row is among the `limit` most recently visited vendor rows.
WithinLimit(r) ==
    Cardinality({q \in VendorRows : q.last_visit_time > r.last_visit_time}) < hs_limit

\* C12: the returned candidates are at most `limit`, most recent first:
\* they are the rows among the `limit` most recent ones that yield a
\* candidate, in descending order of visit time.
C12_AtMostLimitMostRecentFirst ==
    GetAllReturned
        => /\ Len(hs_results) <= hs_limit
           /\ \A i, j \in 1..Len(hs_results) :
                i < j => hs_results[i].time.microseconds
                            > hs_results[j].time.microseconds
           /\ {[url |-> hs_results[j].url,
                 last_visit_time |-> hs_results[j].time.microseconds] :
                    j \in 1..Len(hs_results)}
                = {r \in VendorRows : WithinLimit(r) /\ re_search(r.url) # 0}

\* Three vendor rows under limit 2: the most recent yields no candidate
\* and is removed, the second is returned, the third is cut by the limit
\* although it would yield one.
C12_Witness ==
    /\ GetAllReturned
    /\ hs_limit = 2
    /\ Cardinality(VendorRows) = 3
    /\ Len(hs_rows) = 2
    /\ re_search(hs_rows[1].url) = 0
    /\ Len(hs_results) = 1
    /\ hs_results[1].url = hs_rows[2].url
    /\ \E r \in VendorRows : r.last_visit_time = 1 /\ re_search(r.url) # 0

\* C13: when a reader returns or raises, the temporary copy it created is
\* gone, unless its deletion was attempted and failed, and that failure
\* does not reach the caller.
C13_TemporaryCopyDeleted ==
    hspc \in {"returned", "raised"}
        => /\ tmp_copy = "absent" \/ hs_unlink = "failed"
           /\ hs_pending \notin {"unlink failed"}

\* The call got through the query: the rows are fetched.
RowsFetched ==
    /\ hs_fn = "get_all_report_ids_from_chrome"
    /\ hs_conn = "closed"
    /\ hspc \in {"loop", "returned", "raised"}

\* C25: whatever the URL and the visit time of a fetched row (NULL and
\* out-of-range values included), get_all_report_ids_from_chrome does not
\* raise: when it ends, every fetched row was visited and either gave a
\* candidate or was dropped.
C25_NoRowMakesDiscoveryRaise ==
    RowsFetched
        => /\ hspc # "raised"
           /\ hspc = "returned" =>
                /\ hs_i = Len(hs_rows) + 1
                /\ \A i \in 1..Len(hs_rows) :
                        re_search(hs_rows[i].url) # 0
                            => \E j \in 1..Len(hs_results) :
                                    hs_results[j].url = hs_rows[i].url

(***************************************************************************)
(* TrackmanApp.handle_cloud (trackman_gui.py): credential, discovery,      *)
(* de-duplication, metadata enrichment, the report selector of             *)
(* TokenAndReportDialog, retrieval and conversion of the selected report.  *)
(***************************************************************************)
\* get_all_report_ids_from_chrome(limit=50)
cloud_limit == 50

\* fetch_report_metadata_batch(token, report_ids, max_workers=5)
cloud_max_workers == 5

\* trackman_auth.get_saved_token() or trackman_auth.login_via_browser():
\* a token, or nothing usable (None or an empty text).
Credentials == {"", "token-1"}

\* The history stores discovery is run on in handle_cloud.
CloudUrls ==
    { Url(VendorHost, <<Seg("/reports/", "1f0e-a")>>),
      Url(VendorHost, <<Seg("/?r=", "1f0e-a")>>),
      Url(VendorHost, <<Seg("/reports/", "1f0e"), Seg("&r=", "1f0e-b")>>),
      Url(VendorHost, <<Seg("/report?x=", "1")>>) }

CloudStores ==
    {[exists |-> e, rows |-> t, cookie |-> "none"] :
        e \in BOOLEAN,
        t \in {x \in HistoryTables :
                    Cardinality(x) <= 2 /\ \A r \in x : r.url \in CloudUrls}}

\* What a metadata request meets in handle_cloud: creation timestamps that
\* parse, one that does not, one that is no text, none at all, a failure.
CloudMetaResponses ==
    { HttpOk(JDict([Time |-> JStr("2024-05-01T10:00:00Z"),
                    Kind |-> JStr("MultiGroupReport")])),
      HttpOk(JDict([Updated |-> JStr("2024-05-02T09:00:00+00:00"),
                    Kind |-> JStr("MultiGroupReport")])),
      HttpOk(JDict([Time |-> JStr("not-a-date"),
                    Kind |-> JStr("MultiGroupReport")])),
      HttpOk(JDict([Time |-> JNum(20240501),
                    Kind |-> JStr("MultiGroupReport")])),
      HttpOk(JDict([Kind |-> JStr("MultiGroupReport")])),
      HttpError(500) }

\* datetime.fromisoformat on the texts of the modelled inputs it parses
\* (after "Z" -> "+00:00"); an offset makes the value timezone-aware.
IsoDatetime ==
    [x \in {"2024-05-01T10:00:00Z", "2024-05-02T09:00:00+00:00"} |->
        IF x = "2024-05-01T10:00:00Z"
        THEN [y |-> 2024, mo |-> 5, d |-> 1, h |-> 10, tz |-> "aware"]
        ELSE [y |-> 2024, mo |-> 5, d |-> 2, h |-> 9, tz |-> "aware"]]

\* datetime.utcnow(): the current time, without a timezone.
utcnow == [y |-> 2024, mo |-> 6, d |-> 1, h |-> 12, tz |-> "naive"]

\* datetime.fromisoformat(created.replace("Z", "+00:00")) inside the try:
\* a value that is no text has no replace, a text may not parse; both end
\* in the except branch.
parse_created(created) ==
    IF created.t = "str" /\ created.s \in DOMAIN IsoDatetime
    THEN IsoDatetime[created.s]
    ELSE utcnow

\* A variant of the loop body that appends nothing for a report without
\* a creation timestamp.
enrich_skip_missing(r, meta) ==
    IF Truthy(meta) /\ Truthy(Get(meta, "created"))
    THEN <<[id |-> meta.f.id.s, created |-> meta.f.created, kind |-> meta.f.kind,
            time |-> parse_created(meta.f.created)]>>
    ELSE <<>>

\* The body of `for r, meta in zip(unique_reports, metadata_list)`: what
\* it appends to enriched.
enrich(r, meta) ==
    IF Truthy(meta) /\ Truthy(Get(meta, "created"))
    THEN <<[id |-> meta.f.id.s, created |-> meta.f.created, kind |-> meta.f.kind,
            time |-> parse_created(meta.f.created)]>>
    ELSE <<[id |-> r.id, time |-> utcnow]>>

\* zip(unique_reports, metadata_list) walked from pair i on.
RECURSIVE enrich_from(_, _, _)
enrich_from(rs, metas, i) ==
    IF i > Len(rs) \/ i > Len(metas) THEN <<>>
    ELSE enrich(rs[i], metas[i]) \o enrich_from(rs, metas, i + 1)

\* Comparing two datetimes raises TypeError when one is timezone-aware and
\* the other is not.
Comparable(reports) ==
    \A i, j \in 1..Len(reports) : reports[i].time.tz = reports[j].time.tz

TimeKey(t) == (((t.y * 12 + t.mo) * 31 + t.d) * 24) + t.h

\* sorted(reports, key=time, reverse=True): newest first, entries of equal
\* time in their given order.
sorted_newest_first(reports) ==
    LET n == Len(reports)
        Before(a, b) ==
            \/ TimeKey(reports[a].time) > TimeKey(reports[b].time)
            \/ TimeKey(reports[a].time) = TimeKey(reports[b].time) /\ a < b
    IN [k \in 1..n |->
            reports[CHOOSE a \in 1..n :
                        Cardinality({b \in 1..n : Before(b, a)}) = k - 1]]

\* messagebox.showerror(title, text)
ShowErrorBox(title, text) == [kind |-> "error", title |-> title, text |-> text]

\* A variant of the step after discovery without the test for an empty
\* result.
after_discovery_no_empty_test(outcome, raw) ==
    IF outcome = "raised" THEN "except" ELSE "dedup"

\* A variant of the step after discovery that takes a failed discovery for
\* an empty result.
after_discovery_as_empty(outcome, raw) ==
    IF outcome = "returned" /\ raw # <<>> THEN "dedup" ELSE "no reports"

\* Where handle_cloud goes when get_all_report_ids_from_chrome ends: the
\* outer except when it raised, the "No Reports Found" branch on an empty
\* list, the de-duplication otherwise.
after_discovery(outcome, raw) ==
    IF outcome = "raised" THEN "except"
    ELSE IF raw = <<>> THEN "no reports"
    ELSE "dedup"

\* handle_cloud was called: no dialog yet, the history store as it is.
ClInit ==
    /\ clpc = "start" /\ token = "" /\ dialog = "none" /\ messages = <<>>
    /\ metadata_list = <<>> /\ enriched = <<>> /\ sorted_reports = <<>>
    /\ hs_fn = "get_all_report_ids_from_chrome"
    /\ hspc = "off"
    /\ hs_limit = cloud_limit
    /\ hs_store \in CloudStores
    /\ hs_store.exists \/ hs_store.rows = {}
    /\ tmp_copy = "absent" /\ hs_conn = "none" /\ hs_rows = <<>> /\ hs_i = 0
    /\ hs_results = JNull /\ hs_pending = "none" /\ hs_unlink = "none"

ClRest == <<wbVars, cvVars, bsVars>>

\* dialog = TokenAndReportDialog(self); token = get_saved_token() or
\* login_via_browser(); without a token the dialog is destroyed and the
\* exception raised reaches the outer except.
CloudToken ==
    /\ clpc = "start"
    /\ \E t \in Credentials :
        /\ token' = t
        /\ IF t = ""
           THEN /\ dialog' = "destroyed"
                /\ messages' = Append(messages,
                        ShowErrorBox("Error", "Could not retrieve TrackMan token."))
                /\ clpc' = "done"
           ELSE /\ dialog' = "loading"
                /\ UNCHANGED messages
                /\ clpc' = "discover"
    /\ UNCHANGED <<metadata_list, enriched, sorted_reports>>
    /\ UNCHANGED <<batchVars, dlVars, ddVars, hsVars, ClRest>>

\* raw_reports = get_all_report_ids_from_chrome(limit=50) is called.
CloudDiscover ==
    /\ clpc = "discover"
    /\ hspc' = "check"
    /\ clpc' = "discovering"
    /\ UNCHANGED <<hs_fn, hs_limit, hs_store, tmp_copy, hs_conn, hs_rows, hs_i,
                   hs_results, hs_pending, hs_unlink>>
    /\ UNCHANGED <<token, dialog, messages, metadata_list, enriched, sorted_reports>>
    /\ UNCHANGED <<batchVars, dlVars, ddVars, ClRest>>

\* The call ended.  It raised: except Exception as e: showerror("Error",
\* str(e)).  It returned nothing: the dialog is destroyed, "No Reports
\* Found" is shown, return.  Otherwise the de-duplication loop starts.
CloudDiscovered ==
    /\ clpc = "discovering"
    /\ hspc \in {"returned", "raised"}
    /\ LET next == after_discovery(hspc, hs_results)
       IN CASE next = "except" ->
                /\ messages' = Append(messages, ShowErrorBox("Error", hs_pending))
                /\ clpc' = "done"
                /\ UNCHANGED <<dialog, ddVars>>
            [] next = "no reports" ->
                /\ dialog' = "destroyed"
                /\ messages' = Append(messages,
                        ShowErrorBox("No Reports Found",
                            "No recent TrackMan reports were found in Chrome history."))
                /\ clpc' = "done"
                /\ UNCHANGED ddVars
            [] OTHER ->
                /\ raw_reports' = hs_results
                /\ ddpc' = "loop" /\ di' = 1 /\ seen' = {} /\ unique_reports' = <<>>
                /\ clpc' = "dedup"
                /\ UNCHANGED <<dialog, messages>>
    /\ UNCHANGED <<token, metadata_list, enriched, sorted_reports>>
    /\ UNCHANGED <<batchVars, dlVars, hsVars, ClRest>>

\* report_ids = [r["id"] for r in unique_reports];
\* fetch_report_metadata_batch(token, report_ids, max_workers=5) is called.
CloudFetch ==
    /\ clpc = "dedup"
    /\ ddpc = "done"
    /\ report_ids' = [i \in 1..Len(unique_reports) |-> unique_reports[i].id]
    /\ max_workers' = cloud_max_workers
    /\ bpc' = "start" /\ futs' = <<>> /\ results' = <<>>
    /\ clpc' = "fetching"
    /\ UNCHANGED <<token, dialog, messages, metadata_list, enriched, sorted_reports>>
    /\ UNCHANGED <<dlVars, ddVars, hsVars, ClRest>>

\* metadata_list is returned; the loop over zip(unique_reports,
\* metadata_list) builds enriched.
CloudEnrich ==
    /\ clpc = "fetching"
    /\ bpc = "returned"
    /\ metadata_list' = results
    /\ enriched' = enrich_from(unique_reports, results, 1)
    /\ clpc' = "populate"
    /\ UNCHANGED <<token, dialog, messages, sorted_reports>>
    /\ UNCHANGED <<batchVars, dlVars, ddVars, hsVars, ClRest>>

\* dialog.populate_reports(token, enriched): _show_report_selector clears
\* the loading prompt and sorts the reports newest first; a TypeError of
\* the sort reaches the outer except of handle_cloud.
CloudPopulate ==
    /\ clpc = "populate"
    /\ IF Comparable(enriched)
       THEN /\ sorted_reports' = sorted_newest_first(enriched)
            /\ dialog' = "selector"
            /\ clpc' = "waiting"
            /\ UNCHANGED messages
       ELSE /\ dialog' = "cleared"
            /\ messages' = Append(messages,
                    ShowErrorBox("Error",
                        "can't compare offset-naive and offset-aware datetimes"))
            /\ clpc' = "done"
            /\ UNCHANGED sorted_reports
    /\ UNCHANGED <<token, metadata_list, enriched>>
    /\ UNCHANGED <<batchVars, dlVars, ddVars, hsVars, ClRest>>

\* The operator presses Select on card k: _on_select sets selected_report
\* and destroys the dialog; wait_window returns, the overlay is shown and
\* download_report(token, selected_report["id"]) is called.
CloudSelect ==
    /\ clpc = "waiting"
    /\ \E k \in 1..Len(sorted_reports) :
        selected' = [id |-> sorted_reports[k].id, time |-> sorted_reports[k].time]
    /\ dialog' = "destroyed"
    /\ calls' = calls + 1
    /\ dlpc' = "download"
    /\ clpc' = "retrieval"
    /\ UNCHANGED <<resp, rawFile, xlsxFiles, json_path, dl_exc, shown, last200>>
    /\ UNCHANGED <<token, messages, metadata_list, enriched, sorted_reports>>
    /\ UNCHANGED <<batchVars, ddVars, hsVars, ClRest>>

\* The operator closes the dialog: selected_report stays None, return.
CloudCancel ==
    /\ clpc = "waiting"
    /\ dialog' = "destroyed"
    /\ clpc' = "done"
    /\ UNCHANGED <<token, messages, metadata_list, enriched, sorted_reports>>
    /\ UNCHANGED <<batchVars, dlVars, ddVars, hsVars, ClRest>>

\* The success or error message of the retrieval was shown: return.
CloudReturn ==
    /\ clpc = "retrieval"
    /\ dlpc = "idle"
    /\ clpc' = "done"
    /\ UNCHANGED <<token, dialog, messages, metadata_list, enriched, sorted_reports>>
    /\ UNCHANGED <<batchVars, dlVars, ddVars, hsVars, ClRest>>

(***************************************************************************)
(* Properties of handle_cloud.                                             *)
(***************************************************************************)
\* The enrichment loop has run.
EnrichmentDone ==
    \/ clpc \in {"populate", "waiting", "retrieval"}
    \/ clpc = "done" /\ bpc = "returned"

\* The creation timestamp the vendor sent for report_ids[i]: the body's
\* Time, its Updated when Time is missing or empty, None when the request
\* failed or the body is no record.
SentCreated(i) ==
    LET f == futs[CHOOSE k \in 1..Len(futs) : futs[k].idx = i]
        r == f.resp
    IN IF r.exc # "none" \/ r.status # 200 \/ r.body.t # "dict" THEN JNull
       ELSE LET t == IF "Time" \in DOMAIN r.body.f THEN r.body.f["Time"] ELSE JNull
                u == IF "Updated" \in DOMAIN r.body.f THEN r.body.f["Updated"] ELSE JNull
            IN IF t.t \in {"null", "absent"} \/ t = JStr("") \/ t = JNum(0)
               THEN u ELSE t

ParsableStamps == {"2024-05-01T10:00:00Z", "2024-05-02T09:00:00+00:00"}

\* C16: after enrichment every deduplicated candidate has exactly one
\* enriched entry, at its own position and with its identifier, and each
\* entry has a time: the parsed creation time when the vendor sent a
\* parsable creation timestamp, the current time otherwise.
C16_EnrichedEntryPerCandidate ==
    EnrichmentDone
        => /\ Len(enriched) = Len(unique_reports)
           /\ \A i \in 1..Len(unique_reports) :
                /\ i \in DOMAIN enriched
                /\ enriched[i].id = unique_reports[i].id
                /\ "time" \in DOMAIN enriched[i]
                /\ LET c == SentCreated(i)
                   IN IF c.t = "str" /\ c.s \in ParsableStamps
                      THEN /\ enriched[i].time.tz = "aware"
                           /\ enriched[i].time = IsoDatetime[c.s]
                      ELSE enriched[i].time = utcnow

\* Two candidates: the first got a parsed creation time, the metadata
\* request of the second failed and it got the current time.
C16_Witness ==
    /\ EnrichmentDone
    /\ Len(unique_reports) = 2
    /\ Len(enriched) = 2
    /\ metadata_list[1] # JNull
    /\ enriched[1].time = IsoDatetime["2024-05-01T10:00:00Z"]
    /\ metadata_list[2] = JNull
    /\ enriched[2].time = utcnow

\* Discovery ended without rows fetched: the store was missing, the copy
\* failed (no connection was made) or the query failed (the connection
\* was left open).
StoreUnavailable ==
    /\ clpc \notin {"off", "start", "discover"}
    /\ hspc \in {"returned", "raised"}
    /\ hs_conn # "closed"

StoreErrors ==
    {"Chrome history not found", "Failed to copy Chrome history",
     "Error reading Chrome history"}

\* C20: when the history store is missing, cannot be copied or cannot be
\* queried, get_all_report_ids_from_chrome raises (it returns no list),
\* handle_cloud shows that error and ends, and neither a metadata request
\* nor a retrieval request is made in that run.
C20_StoreUnavailableAborts ==
    StoreUnavailable
        => /\ hspc = "raised"
           /\ hs_pending \in StoreErrors
           /\ ~hs_store.exists => hs_pending = "Chrome history not found"
           /\ clpc \in {"discovering", "done"}
           /\ clpc = "done" => messages = <<ShowErrorBox("Error", hs_pending)>>
           /\ bpc = "off" /\ futs = <<>>
           /\ calls = 0 /\ dlpc = "off" /\ resp = NoResponse

\* The query on the copy failed; handle_cloud showed the error and ended.
C20_Witness ==
    /\ StoreUnavailable
    /\ clpc = "done"
    /\ hs_store.exists
    /\ hs_conn = "open"
    /\ hs_pending = "Error reading Chrome history"
    /\ messages = <<ShowErrorBox("Error", "Error reading Chrome history")>>

\* The steps of a run of handle_cloud, read off the state.
DiscoveryStarted == hspc # "off"
DiscoverySucceeded ==
    hspc = "returned" /\ hs_conn = "closed" /\ Len(hs_results) > 0
EnrichmentStarted == bpc # "off"
SelectorShown == sorted_reports # <<>>
RetrievalStarted == dlpc # "off"
RetrievalSucceeded ==
    /\ resp.exc = "none" /\ resp.status = 200 /\ IsDict(resp.body)
    /\ json_path = RAW_REPORT_PATH /\ rawFile = resp.body
SynthesisStarted == data # JNull
WorkbookSaved == xlsxFiles # NoFiles

\* The position of handle_cloud among its steps.
StepRank(pc) ==
    CASE pc = "start" -> 1
      [] pc \in {"discover", "discovering"} -> 2
      [] pc \in {"dedup", "fetching", "populate"} -> 3
      [] pc = "waiting" -> 4
      [] pc = "retrieval" -> 5
      [] OTHER -> 6

\* Each step that has begun finds every earlier step done with success.
StepsGuarded ==
    /\ DiscoveryStarted => token # ""
    /\ token = "" =>
            /\ ~DiscoveryStarted /\ ~EnrichmentStarted /\ futs = <<>>
            /\ ~RetrievalStarted /\ calls = 0
    /\ EnrichmentStarted => DiscoverySucceeded /\ ddpc = "done"
    /\ Len(futs) > 0 => Len(unique_reports) > 0
    /\ SelectorShown => bpc = "returned" /\ Len(enriched) = Len(report_ids)
    /\ RetrievalStarted =>
            /\ SelectorShown /\ dialog = "destroyed" /\ calls = 1
            /\ \E k \in 1..Len(sorted_reports) :
                    /\ selected.id = sorted_reports[k].id
                    /\ selected.time = sorted_reports[k].time
    /\ (clpc = "done" /\ calls = 0) => ~RetrievalStarted /\ resp = NoResponse
    /\ SynthesisStarted => RetrievalSucceeded /\ data = rawFile
    /\ WorkbookSaved => SynthesisStarted /\ wb # <<>> /\ exc = "none"

\* handle_cloud never goes back to an earlier step, the retrieval request
\* is made at the selection only, and a file is written by the save only.
StepOrder ==
    /\ StepRank(clpc') >= StepRank(clpc)
    /\ calls' # calls => clpc = "waiting" /\ clpc' = "retrieval"
    /\ xlsxFiles' # xlsxFiles => clpc = "retrieval" /\ wbpc = "returned"

\* C22: in a run of handle_cloud the steps occur in the order credential,
\* discovery, enrichment, selection, retrieval, synthesis, save, and a
\* step runs only when every earlier one succeeded: without a credential
\* nothing else runs, without a candidate no metadata request is made,
\* without a selection no retrieval, and a workbook is saved only after a
\* successful retrieval of the same run.
C22_StepsInOrderEachAfterSuccess == [](StepsGuarded) /\ [][StepOrder]_vars

\* A run that went through every step: the workbook of the selected report
\* was saved and handle_cloud returned.
C22_Witness ==
    /\ clpc = "done"
    /\ token # ""
    /\ DiscoverySucceeded
    /\ bpc = "returned"
    /\ calls = 1
    /\ RetrievalSucceeded
    /\ WorkbookSaved
    /\ shown.kind = "info"

\* C28: sorting the enriched reports for the selector never fails: for
\* every mix of parsed creation times and fallback times the selector is
\* shown with all the reports, newest first, and no error is reported.
C28_SelectorSortNeverFails ==
    (EnrichmentDone /\ clpc # "populate")
        => /\ Len(sorted_reports) = Len(enriched)
           /\ \A i, j \in 1..Len(sorted_reports) :
                i < j => TimeKey(sorted_reports[i].time)
                            >= TimeKey(sorted_reports[j].time)
           /\ dialog \in {"selector", "destroyed"}
           /\ \A k \in 1..Len(messages) :
                messages[k].text # "can't compare offset-naive and offset-aware datetimes"

\* C30: converting a report never overwrites the workbook of a different
\* report: two selected reports with distinct identifiers are saved to
\* distinct paths, so a file that exists keeps the report it was written for
\* through every save.
C30_DistinctReportsDistinctPaths ==
    [][\A p \in DOMAIN xlsxFiles :
          xlsxFiles'[p].report = xlsxFiles[p].report]_vars

\* The part of C30 the code does keep: reports of different days are saved
\* to different paths.
C30_DistinctDaysDistinctPaths ==
    \A a, b \in SelectableReports :
        <<a.time.y, a.time.mo, a.time.d>> # <<b.time.y, b.time.mo, b.time.d>>
            => OutPath(a) # OutPath(b)

\* C29: when handle_cloud of trackman_gui.py has returned without the
\* report selector having been shown, the dialog it opened is destroyed.
C29_DialogDestroyedOnEarlyReturn ==
    (clpc = "done" /\ ~SelectorShown) => dialog = "destroyed"

(***************************************************************************)
(* The specifications: one per part of the program, the other parts idle.  *)
(***************************************************************************)
BatchIdle ==
    /\ report_ids = <<>> /\ max_workers = 0 /\ bpc = "off"
    /\ futs = <<>> /\ results = <<>>

DlIdle ==
    /\ dlpc = "off" /\ selected = [id |-> "", time |-> [y |-> 0, mo |-> 0, d |-> 0, h |-> 0]]
    /\ resp = NoResponse /\ rawFile = JAbsent /\ xlsxFiles = NoFiles
    /\ json_path = "" /\ dl_exc = NoException /\ shown = [kind |-> "none"]
    /\ calls = 0 /\ last200 = JAbsent

DdIdle ==
    /\ raw_reports = <<>> /\ ddpc = "off" /\ di = 0 /\ seen = {}
    /\ unique_reports = <<>>

CvIdle ==
    /\ cvpc = "off" /\ cv_m = EmptyDict /\ cv_row = NoRow
    /\ cv_iso = JNull /\ cv_text = JAbsent

BsIdle ==
    /\ bspc = "off" /\ bs_df = <<>> /\ bs_ws = <<>> /\ index_list = <<>>
    /\ first_q_excel_row = 0

HsIdle ==
    /\ hs_fn = "none" /\ hspc = "off" /\ hs_limit = 0
    /\ hs_store = [exists |-> FALSE, rows |-> {}, cookie |-> "none"]
    /\ tmp_copy = "absent" /\ hs_conn = "none" /\ hs_rows = <<>> /\ hs_i = 0
    /\ hs_results = JNull /\ hs_pending = "none" /\ hs_unlink = "none"

ClIdle ==
    /\ clpc = "off" /\ token = "" /\ dialog = "none" /\ messages = <<>>
    /\ metadata_list = <<>> /\ enriched = <<>> /\ sorted_reports = <<>>

ExtIdle == CvIdle /\ BsIdle /\ HsIdle /\ ClIdle

InitWorkbook == WbInit /\ BatchIdle /\ DlIdle /\ DdIdle /\ ExtIdle
NextWorkbook == BuildStart \/ ProcessGroup \/ FinishWorkbook
SpecWorkbook == InitWorkbook /\ [][NextWorkbook]_vars

InitBatch == WbIdle /\ BatchInit /\ DlIdle /\ DdIdle /\ ExtIdle
NextBatch ==
    \/ BatchStart
    \/ Submit
    \/ \E i \in 1..MaxIds : WorkerStart(i)
    \/ \E i \in 1..MaxIds : \E r \in MetaResponses : WorkerFinish(i, r)
    \/ \E i \in 1..MaxIds : Collect(i)
    \/ BatchReturn
SpecBatch == InitBatch /\ [][NextBatch]_vars

InitBatchDefault == WbIdle /\ BatchInitDefault /\ DlIdle /\ DdIdle /\ ExtIdle
NextBatchDefault ==
    \/ BatchStart
    \/ Submit
    \/ \E i \in 1..DefaultCallIds : WorkerStart(i)
    \/ \E i \in 1..DefaultCallIds : WorkerFinish(i, HttpError(500))
    \/ \E i \in 1..DefaultCallIds : Collect(i)
    \/ BatchReturn
SpecBatchDefault == InitBatchDefault /\ [][NextBatchDefault]_vars

\* trackman_gui_app_v2.py converts with converter.py, trackman_gui.py with
\* its own build_workbook_per_club.
InitDownload ==
    /\ variant \in {"converter", "gui"}
    /\ data = JNull /\ wbpc = "off"
    /\ stroke_groups = JNull /\ gi = 0 /\ wb = <<>> /\ all_rows = <<>>
    /\ exc = "none"
    /\ BatchIdle /\ DlInit /\ DdIdle /\ ExtIdle
NextDownload ==
    \/ SelectReport
    \/ DownloadReport
    \/ ConvertStart
    \/ BuildStart
    \/ ProcessGroup
    \/ FinishWorkbook
    \/ SaveWorkbook
    \/ ConvertRaised
    \/ ShowError
SpecDownload == InitDownload /\ [][NextDownload]_vars

InitDedup == WbIdle /\ BatchIdle /\ DlIdle /\ DdInit /\ ExtIdle
NextDedup == DedupVisit \/ DedupDone
SpecDedup == InitDedup /\ [][NextDedup]_vars

BaseIdle == WbIdle /\ BatchIdle /\ DlIdle /\ DdIdle

InitConvert == BaseIdle /\ CvInit /\ BsIdle /\ HsIdle /\ ClIdle
NextConvert == ConvertRow \/ FormatTime
SpecConvert == InitConvert /\ [][NextConvert]_vars

InitBestSwings == BaseIdle /\ CvIdle /\ BsInit /\ HsIdle /\ ClIdle
NextBestSwings == BsFinalize \/ BsFilter \/ BsWrite \/ BsBorder
SpecBestSwings == InitBestSwings /\ [][NextBestSwings]_vars

InitHistory == BaseIdle /\ CvIdle /\ BsIdle /\ HsInit /\ ClIdle
NextHistory ==
    \/ HsCheck
    \/ HsCopy
    \/ HsQuery
    \/ HsScan
    \/ HsCleanup
    \/ HsExtract
    \/ HsReturn
SpecHistory == InitHistory /\ [][NextHistory]_vars

InitVisitTimes == BaseIdle /\ CvIdle /\ BsIdle /\ HsInitVisitTimes /\ ClIdle
NextVisitTimes ==
    \/ HsCheck
    \/ HsCopy
    \/ HsQuery
    \/ HsCleanup
    \/ HsExtract
    \/ HsReturn
SpecVisitTimes == InitVisitTimes /\ [][NextVisitTimes]_vars

\* handle_cloud of trackman_gui.py converts with its own
\* build_workbook_per_club.
InitCloud ==
    /\ variant = "gui"
    /\ data = JNull /\ wbpc = "off"
    /\ stroke_groups = JNull /\ gi = 0 /\ wb = <<>> /\ all_rows = <<>>
    /\ exc = "none"
    /\ BatchIdle /\ DlIdle /\ DdIdle /\ CvIdle /\ BsIdle /\ ClInit
NextCloud ==
    \/ CloudToken
    \/ CloudDiscover
    \/ HsCheck
    \/ HsCopy
    \/ HsQuery
    \/ HsCleanup
    \/ HsExtract
    \/ HsReturn
    \/ CloudDiscovered
    \/ DedupVisit
    \/ DedupDone
    \/ CloudFetch
    \/ BatchStart
    \/ Submit
    \/ \E i \in 1..MaxIds : WorkerStart(i)
    \/ \E i \in 1..MaxIds : \E r \in CloudMetaResponses : WorkerFinish(i, r)
    \/ \E i \in 1..MaxIds : Collect(i)
    \/ BatchReturn
    \/ CloudEnrich
    \/ CloudPopulate
    \/ CloudSelect
    \/ CloudCancel
    \/ DownloadReport
    \/ ConvertStart
    \/ BuildStart
    \/ ProcessGroup
    \/ FinishWorkbook
    \/ SaveWorkbook
    \/ ConvertRaised
    \/ ShowError
    \/ CloudReturn
SpecCloud == InitCloud /\ [][NextCloud]_vars

====
